---- MODULE Spec2Model ----
(***************************************************************************)
(* pycaniuse: the full-screen feature view (caniuse/ui/fullscreen.py) and  *)
(* the search-result selector (caniuse/ui/select.py).                      *)
(*                                                                         *)
(* Strings stand for single bytes / characters and for the logical keys;  *)
(* a text is modelled by its number of lines, a browser block by its      *)
(* number of support ranges.  "None" stands for Python's None.            *)
(***************************************************************************)
EXTENDS Integers, Sequences, FiniteSets, TLC

\* ------------------------------------------------------------------ bounds
MaxBrowsers == 3
MaxRanges == 2
MaxTabs == 1
MaxCards == 2
MaxOptions == 4

\* --------------------------------------------------------- program constants
_CARD_WIDTH == 24
footer_size == 4
PageStep == 5

Max(a, b) == IF a >= b THEN a ELSE b
Min(a, b) == IF a <= b THEN a ELSE b

\* Python's // for a positive divisor (rounds toward minus infinity).
FloorDiv(a, b) == a \div b

RECURSIVE SeqsUpTo(_, _)
SeqsUpTo(S, n) ==
    IF n = 0 THEN {<<>>}
    ELSE LET shorter == SeqsUpTo(S, n - 1)
         IN shorter \cup {Append(s, x) : s \in {t \in shorter : Len(t) = n - 1}, x \in S}

\* ------------------------------------------------------------------ keys
\* fullscreen._KEY
_KEY == {"up", "down", "left", "right", "pageup", "pagedown", "home", "end",
         "tab", "shift_tab", "next_tab", "prev_tab", "quit", "noop"}

\* select._KEY
SelectKEY == {"up", "down", "enter", "quit", "noop"}

\* --------------------------------------------------------------- FeatureFull
\* browser_blocks: the number of ranges of each block, in order.
\* tabs: the number of lines of each tab's content, in order (a content
\* always splits into at least one line: `splitlines() or [tab_content]`).
\* spec_url, usage, description_text, notes_text: whether the field is set.
\* resources, subfeatures: the number of entries.
LegendLines == 4
LongTab == PageStep + 2

TabLineCounts == {1, LongTab}

FeatureFull(blocks, tabs, desc, notes) ==
    [browser_blocks |-> blocks, tabs |-> tabs, spec_url |-> FALSE, usage |-> FALSE,
     description_text |-> desc, notes_text |-> notes, resources |-> 0, subfeatures |-> 0]

\* Browser blocks: n blocks whose range counts cycle through 0..MaxRanges
\* from the count `first`, so neighbours differ and every count occurs.
BrowserBlocks(n, first) == [i \in 1..n |-> (first + i - 1) % (MaxRanges + 1)]
BrowserConfigs == {BrowserBlocks(n, first) : n \in 0..MaxBrowsers, first \in 0..MaxRanges}
TabConfigs == SeqsUpTo(TabLineCounts, MaxTabs)


\* _tab_sections without the Legend section appended.
_tab_sections_no_legend(feature) ==
    LET meta == (IF feature.spec_url THEN 1 ELSE 0)
                + (IF feature.usage THEN 1 ELSE 0)
                + (IF feature.description_text THEN 3 ELSE 0)
        info_lines == IF meta = 0 THEN 1 ELSE meta
        fallback == (IF feature.notes_text THEN <<1>> ELSE <<>>)
                    \o (IF feature.resources > 0 THEN <<feature.resources>> ELSE <<>>)
                    \o (IF feature.subfeatures > 0 THEN <<feature.subfeatures>> ELSE <<>>)
    IN <<info_lines>>
       \o (IF feature.tabs # <<>> THEN feature.tabs ELSE fallback)


\* _tab_sections that returns the parsed tabs (or the fallback sections)
\* alone, with neither Info before them nor Legend after them.
_tab_sections_tabs_only(feature) ==
    LET fallback == (IF feature.notes_text THEN <<1>> ELSE <<>>)
                    \o (IF feature.resources > 0 THEN <<feature.resources>> ELSE <<>>)
                    \o (IF feature.subfeatures > 0 THEN <<feature.subfeatures>> ELSE <<>>)
    IN IF feature.tabs # <<>> THEN feature.tabs ELSE fallback

\* _tab_sections: the line count of each section, Info first, Legend last.
_tab_sections(feature) ==
    LET meta == (IF feature.spec_url THEN 1 ELSE 0)
                + (IF feature.usage THEN 1 ELSE 0)
                + (IF feature.description_text THEN 3 ELSE 0)
        info_lines == IF meta = 0 THEN 1 ELSE meta
        fallback == (IF feature.notes_text THEN <<1>> ELSE <<>>)
                    \o (IF feature.resources > 0 THEN <<feature.resources>> ELSE <<>>)
                    \o (IF feature.subfeatures > 0 THEN <<feature.subfeatures>> ELSE <<>>)
    IN <<info_lines>>
       \o (IF feature.tabs # <<>> THEN feature.tabs ELSE fallback)
       \o <<LegendLines>>

\* --------------------------------------------------------------- _TuiState
_TuiState == [selected_browser |-> 0, browser_offset |-> 0, range_scroll |-> 0,
              tab_index |-> 0, tab_scroll |-> 0]

Clamp(x, lo, hi) == Max(lo, Min(x, hi))

\* _fit_browser_window without its last step (the window is never moved right
\* to follow the cursor).
_fit_browser_window_no_follow(st, browser_count, visible_count) ==
    IF browser_count <= 0
    THEN [st EXCEPT !.selected_browser = 0, !.browser_offset = 0]
    ELSE LET sel == Max(0, Min(st.selected_browser, browser_count - 1))
             max_offset == Max(browser_count - visible_count, 0)
             off1 == Max(0, Min(st.browser_offset, max_offset))
             off2 == IF sel < off1 THEN sel ELSE off1
         IN [st EXCEPT !.selected_browser = sel, !.browser_offset = off2]


\* _fit_browser_window that puts the cursor on the last visible card whenever
\* it can, also when the cursor is already inside the window.
_fit_browser_window_recentres(st, browser_count, visible_count) ==
    IF browser_count <= 0
    THEN [st EXCEPT !.selected_browser = 0, !.browser_offset = 0]
    ELSE LET sel == Max(0, Min(st.selected_browser, browser_count - 1))
         IN [st EXCEPT !.selected_browser = sel,
                       !.browser_offset = Max(sel - visible_count + 1, 0)]

\* _fit_browser_window that moves the window right by one card at a time.
_fit_browser_window_steps(st, browser_count, visible_count) ==
    IF browser_count <= 0
    THEN [st EXCEPT !.selected_browser = 0, !.browser_offset = 0]
    ELSE LET sel == Max(0, Min(st.selected_browser, browser_count - 1))
             max_offset == Max(browser_count - visible_count, 0)
             off1 == Max(0, Min(st.browser_offset, max_offset))
             off2 == IF sel < off1 THEN sel ELSE off1
             off3 == IF sel >= off2 + visible_count THEN off2 + 1 ELSE off2
         IN [st EXCEPT !.selected_browser = sel, !.browser_offset = off3]

\* _fit_browser_window whose window, moved right, ends one card before the
\* cursor.
_fit_browser_window_off_by_one(st, browser_count, visible_count) ==
    IF browser_count <= 0
    THEN [st EXCEPT !.selected_browser = 0, !.browser_offset = 0]
    ELSE LET sel == Max(0, Min(st.selected_browser, browser_count - 1))
             max_offset == Max(browser_count - visible_count, 0)
             off1 == Max(0, Min(st.browser_offset, max_offset))
             off2 == IF sel < off1 THEN sel ELSE off1
             off3 == IF sel >= off2 + visible_count
                     THEN Max(sel - visible_count, 0) ELSE off2
         IN [st EXCEPT !.selected_browser = sel, !.browser_offset = off3]

\* _fit_browser_window(state, browser_count, visible_count)
_fit_browser_window(st, browser_count, visible_count) ==
    IF browser_count <= 0
    THEN [st EXCEPT !.selected_browser = 0, !.browser_offset = 0]
    ELSE LET sel == Max(0, Min(st.selected_browser, browser_count - 1))
             max_offset == Max(browser_count - visible_count, 0)
             off1 == Max(0, Min(st.browser_offset, max_offset))
             off2 == IF sel < off1 THEN sel ELSE off1
             off3 == IF sel >= off2 + visible_count
                     THEN Max(sel - visible_count + 1, 0) ELSE off2
         IN [st EXCEPT !.selected_browser = sel, !.browser_offset = off3]

\* Python sequence indexing: a negative index counts from the end; an index
\* outside [-n, n) raises IndexError.
PyIndexOK(i, n) == -n <= i /\ i < n
PyIndex(seq, i) == IF i >= 0 THEN seq[i + 1] ELSE seq[Len(seq) + i + 1]

\* Python's % for a positive divisor (the result has the divisor's sign).
PyMod(a, n) == a % n

\* ------------------------------------------------------------ frame building
\* The half-open slice seq[first : first + count] of a list of `total` items:
\* the number of items it yields.
SliceLen(first, count, total) == Max(Min(first + count, total) - Min(first, total), 0)

\* _support_overview_panel drawing from the stored offset without fitting the
\* window first.
_support_overview_panel_no_fit(feature, st, width, max_rows) ==
    LET browser_count == Len(feature.browser_blocks)
        visible_count == Max(FloorDiv(width, _CARD_WIDTH), 1)
        start == st.browser_offset
        stop == Min(start + visible_count, browser_count)
    IN [state |-> st,
        panel |-> IF browser_count = 0
                  THEN [kind |-> "no_blocks", start |-> 0, stop |-> 0,
                        visible_count |-> visible_count]
                  ELSE [kind |-> "cards", start |-> start, stop |-> stop,
                        visible_count |-> visible_count],
        ok |-> browser_count = 0
               \/ \A index \in start..(stop - 1) : PyIndexOK(index, browser_count)]

\* _support_overview_panel: fits the carousel window, then draws the cards
\* with index in range(start, stop).
_support_overview_panel(feature, st, width, max_rows) ==
    LET browser_count == Len(feature.browser_blocks)
        visible_count == Max(FloorDiv(width, _CARD_WIDTH), 1)
        fitted == _fit_browser_window(st, browser_count, visible_count)
        start == fitted.browser_offset
        stop == Min(start + visible_count, browser_count)
    IN [state |-> fitted,
        panel |-> IF browser_count = 0
                  THEN [kind |-> "no_blocks", start |-> 0, stop |-> 0,
                        visible_count |-> visible_count]
                  ELSE [kind |-> "cards", start |-> start, stop |-> stop,
                        visible_count |-> visible_count],
        ok |-> browser_count = 0
               \/ \A index \in start..(stop - 1) : PyIndexOK(index, browser_count)]

\* _selected_browser: the index of the focused block; is_none when there is
\* no block.
_selected_browser(feature, st) ==
    IF feature.browser_blocks = <<>> THEN [is_none |-> TRUE, idx |-> 0]
    ELSE [is_none |-> FALSE,
          idx |-> Max(0, Min(st.selected_browser, Len(feature.browser_blocks) - 1))]

\* _support_detail_panel without the early return for a browser with no ranges.
_support_detail_panel_no_empty_check(feature, st, max_rows) ==
    LET selected == _selected_browser(feature, st)
    IN IF selected.is_none
       THEN [state |-> st, panel |-> [kind |-> "no_browser", first |-> 0, rows |-> 0]]
       ELSE LET range_count == feature.browser_blocks[selected.idx + 1]
                scroll == Max(0, Min(st.range_scroll, range_count - 1))
                visible_count == Max(max_rows - 3, 4)
            IN [state |-> [st EXCEPT !.range_scroll = scroll],
                panel |-> [kind |-> "rows", first |-> scroll,
                           visible_count |-> visible_count,
                           rows |-> SliceLen(scroll, visible_count, range_count)]]

\* _support_detail_panel: clamps range_scroll and draws the visible ranges.
_support_detail_panel(feature, st, max_rows) ==
    LET selected == _selected_browser(feature, st)
    IN IF selected.is_none
       THEN [state |-> st, panel |-> [kind |-> "no_browser", first |-> 0, rows |-> 0]]
       ELSE LET range_count == feature.browser_blocks[selected.idx + 1]
            IN IF range_count = 0
               THEN [state |-> st,
                     panel |-> [kind |-> "no_ranges", first |-> 0, rows |-> 0]]
               ELSE LET scroll == Max(0, Min(st.range_scroll, range_count - 1))
                        visible_count == Max(max_rows - 3, 4)
                    IN [state |-> [st EXCEPT !.range_scroll = scroll],
                        panel |-> [kind |-> "rows", first |-> scroll,
                                   visible_count |-> visible_count,
                                   rows |-> SliceLen(scroll, visible_count, range_count)]]

\* _tab_panel: clamps tab_index and tab_scroll and draws the visible lines.
_tab_panel(feature, st, max_rows) ==
    LET sections == _tab_sections(feature)
        index == Max(0, Min(st.tab_index, Len(sections) - 1))
        ok == PyIndexOK(index, Len(sections))
        tab_lines == IF ok THEN PyIndex(sections, index) ELSE 0
        scroll == Max(0, Min(st.tab_scroll, Max(tab_lines - 1, 0)))
        visible_count == Max(max_rows - 4, 4)
        rows == SliceLen(scroll, visible_count, tab_lines)
    IN [state |-> [st EXCEPT !.tab_index = index, !.tab_scroll = scroll],
        panel |-> [kind |-> IF rows = 0 THEN "no_content" ELSE "lines",
                   index |-> index, first |-> scroll, rows |-> rows,
                   visible_count |-> visible_count],
        ok |-> ok]

\* _build_layout: the region sizes from the terminal height.
LayoutRows(height) ==
    LET feature_size == IF height >= 32 THEN 10 ELSE 8
        support_size == Min(Max(FloorDiv(height, 3), 9), 16)
        details_size == Max(height - footer_size - feature_size - support_size, 8)
    IN [support_rows |-> Max(support_size - 3, 5),
        details_rows |-> Max(details_size - 2, 6)]

\* _build_layout: the three panels in order, each working on the state the
\* previous one left.  Each panel is built once and bound, innermost last.
_build_layout(feature, st, width, height) ==
    LET support_rows == LayoutRows(height).support_rows
        details_rows == LayoutRows(height).details_rows
        Root(support, browser, tabs) ==
            [state |-> tabs.state,
             frame |-> [support |-> support.panel, browser |-> browser.panel,
                        tabs |-> tabs.panel],
             ok |-> support.ok /\ tabs.ok]
    IN CHOOSE root \in
          UNION {UNION {{Root(support, browser, tabs) :
                            tabs \in {_tab_panel(feature, browser.state, details_rows)}} :
                     browser \in {_support_detail_panel(feature, support.state,
                                                        details_rows)}} :
                 support \in {_support_overview_panel(feature, st, width - 6,
                                                      support_rows)}} : TRUE

\* ------------------------------------------------------------- _apply_key
\* The exception _apply_key raises on (key, state, feature), or "none".
ApplyKeyError(key, st, feature) ==
    LET browser_count == Len(feature.browser_blocks)
        section_count == Len(_tab_sections(feature))
    IN IF key = "down" /\ browser_count # 0
          /\ ~PyIndexOK(st.selected_browser, browser_count) THEN "IndexError"
       ELSE IF key \in {"tab", "next_tab", "shift_tab", "prev_tab"} /\ section_count = 0
       THEN "ZeroDivisionError"
       ELSE IF key = "pagedown" /\ ~PyIndexOK(st.tab_index, section_count)
       THEN "IndexError"
       ELSE IF key = "end"
               /\ \/ browser_count # 0 /\ ~PyIndexOK(st.selected_browser, browser_count)
                  \/ ~PyIndexOK(st.tab_index, section_count)
       THEN "IndexError"
       ELSE "none"

\* The state _apply_key leaves (where it does not raise).
ApplyKeyState(key, st, feature) ==
    LET browser_count == Len(feature.browser_blocks)
        sections == _tab_sections(feature)
        section_count == Len(sections)
        ranges == PyIndex(feature.browser_blocks, st.selected_browser)
        active_lines == PyIndex(sections, st.tab_index)
    IN CASE key = "quit" -> st
         [] key = "left" /\ browser_count # 0 ->
              [st EXCEPT !.selected_browser = Max(0, st.selected_browser - 1),
                         !.range_scroll = 0]
         [] key = "right" /\ browser_count # 0 ->
              [st EXCEPT !.selected_browser = Min(browser_count - 1, st.selected_browser + 1),
                         !.range_scroll = 0]
         [] key = "up" /\ browser_count # 0 ->
              [st EXCEPT !.range_scroll = Max(st.range_scroll - 1, 0)]
         [] key = "down" /\ browser_count # 0 ->
              [st EXCEPT !.range_scroll = Min(st.range_scroll + 1, Max(ranges - 1, 0))]
         [] key \in {"tab", "next_tab"} ->
              [st EXCEPT !.tab_index = PyMod(st.tab_index + 1, section_count),
                         !.tab_scroll = 0]
         [] key \in {"shift_tab", "prev_tab"} ->
              [st EXCEPT !.tab_index = PyMod(st.tab_index - 1, section_count),
                         !.tab_scroll = 0]
         [] key = "pageup" ->
              [st EXCEPT !.tab_scroll = Max(st.tab_scroll - PageStep, 0)]
         [] key = "pagedown" ->
              [st EXCEPT !.tab_scroll = Min(st.tab_scroll + PageStep,
                                            Max(active_lines - 1, 0))]
         [] key = "home" ->
              [st EXCEPT !.range_scroll = 0, !.tab_scroll = 0]
         [] key = "end" ->
              [st EXCEPT !.range_scroll = IF browser_count # 0
                                          THEN Max(ranges - 1, 0) ELSE @,
                         !.tab_scroll = Max(active_lines - 1, 0)]
         [] OTHER -> st

\* _apply_key that returns True for quit as well.
_apply_key_never_false(key, st, feature) ==
    LET error == ApplyKeyError(key, st, feature)
    IN [continue |-> TRUE,
        state |-> IF error = "none" THEN ApplyKeyState(key, st, feature) ELSE st,
        error |-> error]

\* _apply_key that returns False for noop as it does for quit.
_apply_key_noop_false(key, st, feature) ==
    LET error == ApplyKeyError(key, st, feature)
    IN [continue |-> key \notin {"quit", "noop"},
        state |-> IF error = "none" THEN ApplyKeyState(key, st, feature) ELSE st,
        error |-> error]

\* _apply_key whose `right` does not clamp to browser_count - 1.
_apply_key_right_unclamped(key, st, feature) ==
    LET error == ApplyKeyError(key, st, feature)
    IN [continue |-> key # "quit",
        state |-> IF error # "none" THEN st
                  ELSE IF key = "right" /\ Len(feature.browser_blocks) # 0
                  THEN [st EXCEPT !.selected_browser = st.selected_browser + 1,
                                  !.range_scroll = 0]
                  ELSE ApplyKeyState(key, st, feature),
        error |-> error]

\* _apply_key whose `down` does not clamp to the last range.
_apply_key_down_unclamped(key, st, feature) ==
    LET error == ApplyKeyError(key, st, feature)
    IN [continue |-> key # "quit",
        state |-> IF error # "none" THEN st
                  ELSE IF key = "down" /\ Len(feature.browser_blocks) # 0
                  THEN [st EXCEPT !.range_scroll = st.range_scroll + 1]
                  ELSE ApplyKeyState(key, st, feature),
        error |-> error]

\* _apply_key whose `right` lacks the `and browser_count` guard.
_apply_key_right_unguarded(key, st, feature) ==
    LET error == ApplyKeyError(key, st, feature)
    IN [continue |-> key # "quit",
        state |-> IF error # "none" THEN st
                  ELSE IF key = "right"
                  THEN [st EXCEPT !.selected_browser =
                                     Min(Len(feature.browser_blocks) - 1,
                                         st.selected_browser + 1),
                                  !.range_scroll = 0]
                  ELSE ApplyKeyState(key, st, feature),
        error |-> error]

\* _apply_key whose `left` does not reset range_scroll.
_apply_key_left_keeps_scroll(key, st, feature) ==
    LET error == ApplyKeyError(key, st, feature)
    IN [continue |-> key # "quit",
        state |-> IF error # "none" THEN st
                  ELSE IF key = "left" /\ Len(feature.browser_blocks) # 0
                  THEN [st EXCEPT !.selected_browser = Max(0, st.selected_browser - 1)]
                  ELSE ApplyKeyState(key, st, feature),
        error |-> error]

\* _apply_key whose `up` does not stop at 0.
_apply_key_up_below_zero(key, st, feature) ==
    LET error == ApplyKeyError(key, st, feature)
    IN [continue |-> key # "quit",
        state |-> IF error # "none" THEN st
                  ELSE IF key = "up" /\ Len(feature.browser_blocks) # 0
                  THEN [st EXCEPT !.range_scroll = st.range_scroll - 1]
                  ELSE ApplyKeyState(key, st, feature),
        error |-> error]


\* _apply_key whose shift_tab/prev_tab stops at the first section.
_apply_key_prev_tab_no_wrap(key, st, feature) ==
    LET error == ApplyKeyError(key, st, feature)
    IN [continue |-> key # "quit",
        state |-> IF error # "none" THEN st
                  ELSE IF key \in {"shift_tab", "prev_tab"}
                  THEN [st EXCEPT !.tab_index = Max(st.tab_index - 1, 0),
                                  !.tab_scroll = 0]
                  ELSE ApplyKeyState(key, st, feature),
        error |-> error]

\* _apply_key whose `end` leaves tab_scroll as it is.
_apply_key_end_keeps_tab_scroll(key, st, feature) ==
    LET error == ApplyKeyError(key, st, feature)
    IN [continue |-> key # "quit",
        state |-> IF error # "none" THEN st
                  ELSE IF key = "end"
                  THEN [ApplyKeyState(key, st, feature) EXCEPT !.tab_scroll = st.tab_scroll]
                  ELSE ApplyKeyState(key, st, feature),
        error |-> error]

\* _apply_key that treats noop as home.
_apply_key_noop_homes(key, st, feature) ==
    LET error == ApplyKeyError(key, st, feature)
    IN [continue |-> key # "quit",
        state |-> IF error # "none" THEN st
                  ELSE IF key = "noop" THEN ApplyKeyState("home", st, feature)
                  ELSE ApplyKeyState(key, st, feature),
        error |-> error]


\* _apply_key whose `right` moves the cursor without resetting range_scroll.
_apply_key_right_keeps_scroll(key, st, feature) ==
    LET error == ApplyKeyError(key, st, feature)
        browser_count == Len(feature.browser_blocks)
    IN [continue |-> key # "quit",
        state |-> IF error # "none" THEN st
                  ELSE IF key = "right" /\ browser_count # 0
                  THEN [st EXCEPT !.selected_browser =
                                      Min(browser_count - 1, st.selected_browser + 1)]
                  ELSE ApplyKeyState(key, st, feature),
        error |-> error]

\* _apply_key(key, state, feature): the returned flag, the state left, and
\* the exception raised instead ("none" when it returns).
_apply_key(key, st, feature) ==
    LET error == ApplyKeyError(key, st, feature)
    IN [continue |-> key # "quit",
        state |-> IF error = "none" THEN ApplyKeyState(key, st, feature) ELSE st,
        error |-> error]

\* ------------------------------------------------------------- key decoders
\* An input source: the bytes still to arrive, in order, and what follows
\* them.  "GAP" marks a pause longer than the poll timeout between two bytes;
\* the tail is "idle" (no more bytes for now: a poll times out, a blocking
\* read waits) or "eof" (a read returns no bytes, a poll reports readable).
ESC == "ESC"
GAP == "GAP"
FirstBytes == {ESC, "q", "Q", "\t", "\r", "\n", "[", "]", "h", "j", "k", "l",
               "H", "J", "K", "L", "A", "x"}
ContBytes == {ESC, "[", "O", "A", "B", "C", "X", "5", "~", "q", GAP}
Tails == {"idle", "eof"}

\* char.lower() left out.
Lower_identity(char) == char

Lower(char) ==
    CASE char = "H" -> "h" [] char = "J" -> "j" [] char = "K" -> "k"
      [] char = "L" -> "l" [] char = "Q" -> "q" [] char = "A" -> "a"
      [] char = "X" -> "x" [] OTHER -> char

\* The blocking os.read(fd, 1): pauses are waited out.
RECURSIVE SkipGaps(_)
SkipGaps(bytes) ==
    IF bytes # <<>> /\ Head(bytes) = GAP THEN SkipGaps(Tail(bytes)) ELSE bytes

\* while select.select([fd], [], [], 0.01)[0]: sequence += os.read(fd, 1);
\* break when the sequence ends with a terminator.  At end of file the poll
\* reports readable and the read adds nothing, so the loop never ends: hang.
RECURSIVE EscapeLoop(_, _, _, _)
EscapeLoop(sequence, bytes, tail, terminators) ==
    IF bytes = <<>>
    THEN [sequence |-> sequence, rest |-> bytes, hang |-> tail = "eof"]
    ELSE IF Head(bytes) = GAP
    THEN [sequence |-> sequence, rest |-> Tail(bytes), hang |-> FALSE]
    ELSE IF Head(bytes) \in terminators
    THEN [sequence |-> Append(sequence, Head(bytes)), rest |-> Tail(bytes),
          hang |-> FALSE]
    ELSE EscapeLoop(Append(sequence, Head(bytes)), Tail(bytes), tail, terminators)

FullscreenTerminators == {"A", "B", "C", "D", "~", "Z", "H", "F"}
SelectTerminators == {"A", "B"}

\* fullscreen._decode_escape_sequence with "noop" as the default of the lookup.
_decode_escape_sequence_default_noop(sequence) ==
    CASE sequence = <<"[", "A">> -> "up"
      [] sequence = <<"[", "B">> -> "down"
      [] sequence = <<"[", "C">> -> "right"
      [] sequence = <<"[", "D">> -> "left"
      [] sequence = <<"[", "5", "~">> -> "pageup"
      [] sequence = <<"[", "6", "~">> -> "pagedown"
      [] sequence = <<"[", "H">> -> "home"
      [] sequence = <<"[", "F">> -> "end"
      [] sequence = <<"[", "Z">> -> "shift_tab"
      [] OTHER -> "noop"

\* fullscreen._decode_escape_sequence
_decode_escape_sequence(sequence) ==
    CASE sequence = <<"[", "A">> -> "up"
      [] sequence = <<"[", "B">> -> "down"
      [] sequence = <<"[", "C">> -> "right"
      [] sequence = <<"[", "D">> -> "left"
      [] sequence = <<"[", "5", "~">> -> "pageup"
      [] sequence = <<"[", "6", "~">> -> "pagedown"
      [] sequence = <<"[", "H">> -> "home"
      [] sequence = <<"[", "F">> -> "end"
      [] sequence = <<"[", "Z">> -> "shift_tab"
      [] OTHER -> "quit"

\* fullscreen._read_key_posix after its first read returned `char`: the key
\* for that byte (and, after ESC, for the sequence that follows it).
DecodeChar(char, rest, tail) ==
    LET esc == EscapeLoop(<<>>, rest, tail, FullscreenTerminators)
    IN IF char \in {"q", "Q"} THEN [key |-> "quit", rest |-> rest]
       ELSE IF char = "\t" THEN [key |-> "tab", rest |-> rest]
       ELSE IF char \in {"\r", "\n"} THEN [key |-> "noop", rest |-> rest]
       ELSE IF char \in {"[", "]"}
       THEN [key |-> IF char = "[" THEN "prev_tab" ELSE "next_tab", rest |-> rest]
       ELSE IF char = ESC
       THEN [key |-> IF esc.hang THEN "HANG"
                     ELSE _decode_escape_sequence(esc.sequence),
             rest |-> esc.rest]
       ELSE IF Lower(char) = "h" THEN [key |-> "left", rest |-> rest]
       ELSE IF Lower(char) = "j" THEN [key |-> "down", rest |-> rest]
       ELSE IF Lower(char) = "k" THEN [key |-> "up", rest |-> rest]
       ELSE IF Lower(char) = "l" THEN [key |-> "right", rest |-> rest]
       ELSE [key |-> "noop", rest |-> rest]

\* fullscreen._read_key_posix treating a read of no bytes as quit.
_read_key_posix_eof_quit(bytes, tail) ==
    LET avail == SkipGaps(bytes)
    IN IF avail = <<>>
       THEN [key |-> IF tail = "eof" THEN "quit" ELSE "BLOCKED", rest |-> avail]
       ELSE DecodeChar(Head(avail), Tail(avail), tail)

\* fullscreen._read_key_posix on an input source: the key returned and the
\* bytes left unread.  key "BLOCKED": the first read waits for input;
\* key "HANG": the escape loop never returns.
_read_key_posix(bytes, tail) ==
    LET avail == SkipGaps(bytes)
    IN IF avail = <<>>
       THEN [key |-> IF tail = "eof" THEN "noop" ELSE "BLOCKED", rest |-> avail]
       ELSE DecodeChar(Head(avail), Tail(avail), tail)

\* select._decode_escape_sequence: "O" is normalised to "[", then the last
\* byte decides.
select_decode_escape_sequence(sequence) ==
    LET normalized == [i \in 1..Len(sequence) |->
                          IF sequence[i] = "O" THEN "[" ELSE sequence[i]]
        last == IF normalized = <<>> THEN "" ELSE normalized[Len(normalized)]
    IN IF last = "A" THEN "up"
       ELSE IF last = "B" THEN "down"
       ELSE "noop"

\* select._read_key_posix
select_read_key_posix(bytes, tail) ==
    LET avail == SkipGaps(bytes)
    IN IF avail = <<>>
       THEN [key |-> IF tail = "eof" THEN "noop" ELSE "BLOCKED", rest |-> avail]
       ELSE LET char == Head(avail)
                rest == Tail(avail)
                esc == EscapeLoop(<<>>, rest, tail, SelectTerminators)
            IN IF char \in {"q", "Q"} THEN [key |-> "quit", rest |-> rest]
               ELSE IF char \in {"\r", "\n"} THEN [key |-> "enter", rest |-> rest]
               ELSE IF char = ESC
               THEN [key |-> IF esc.hang THEN "HANG"
                             ELSE IF esc.sequence = <<>> THEN "quit"
                             ELSE select_decode_escape_sequence(esc.sequence),
                     rest |-> esc.rest]
               ELSE IF Lower(char) = "k" THEN [key |-> "up", rest |-> rest]
               ELSE IF Lower(char) = "j" THEN [key |-> "down", rest |-> rest]
               ELSE [key |-> "noop", rest |-> rest]

\* _read_key_windows: getwch() gives `char`, and `special` when char is a
\* lead byte of an extended key.
_read_key_windows(char, special) ==
    IF char \in {"q", "Q", ESC} THEN "quit"
    ELSE IF char = "\t" THEN "tab"
    ELSE IF char = "[" THEN "prev_tab"
    ELSE IF char = "]" THEN "next_tab"
    ELSE IF char \in {"h", "H"} THEN "left"
    ELSE IF char \in {"j", "J"} THEN "down"
    ELSE IF char \in {"k", "K"} THEN "up"
    ELSE IF char \in {"l", "L"} THEN "right"
    ELSE IF char \in {"NUL", "E0"}
    THEN CASE special = "H" -> "up" [] special = "P" -> "down"
           [] special = "K" -> "left" [] special = "M" -> "right"
           [] special = "I" -> "pageup" [] special = "Q" -> "pagedown"
           [] special = "G" -> "home" [] special = "O" -> "end"
           [] OTHER -> "noop"
    ELSE "noop"

\* select._read_key_windows
select_read_key_windows(char, special) ==
    IF char \in {"q", "Q", ESC} THEN "quit"
    ELSE IF char \in {"\r", "\n"} THEN "enter"
    ELSE IF char \in {"k", "K"} THEN "up"
    ELSE IF char \in {"j", "J"} THEN "down"
    ELSE IF char \in {"NUL", "E0"}
    THEN CASE special = "H" -> "up" [] special = "P" -> "down" [] OTHER -> "noop"
    ELSE "noop"

\* What one key press sends: a single byte, or an escape sequence whose bytes
\* arrive together.
Keystrokes ==
    {<<b>> : b \in FirstBytes}
    \cup {<<ESC, "[", t>> : t \in {"A", "B", "C", "D", "H", "F", "Z", "X"}}
    \cup {<<ESC, "[", n, "~">> : n \in {"5", "6"}}
    \cup {<<ESC, "O", "C">>}

WindowsChars == {"q", "\t", "\r", "[", "]", "h", "j", "k", "l", "x", ESC, "E0"}
WindowsSpecials == {"H", "P", "K", "M", "I", "Q", "G", "O", "X"}


\* _visible_window whose window starts at the cursor instead of half a
\* window before it.
_visible_window_top_anchored(idx, total, height) ==
    LET visible == Max(height - 6, 1)
        start1 == Max(idx, 0)
        start2 == Min(start1, total - visible)
    IN IF total <= visible THEN <<0, total>>
       ELSE <<start2, Min(start2 + visible, total)>>

\* _visible_window without the clamp of start to total - visible.
_visible_window_no_upper_clamp(idx, total, height) ==
    LET visible == Max(height - 6, 1)
        start0 == idx - FloorDiv(visible, 2)
        start1 == Max(start0, 0)
    IN IF total <= visible THEN <<0, total>>
       ELSE <<start1, Min(start1 + visible, total)>>

\* select._visible_window(selected_idx, total, height)
_visible_window(idx, total, height) ==
    LET visible == Max(height - 6, 1)
        start0 == idx - FloorDiv(visible, 2)
        start1 == Max(start0, 0)
        start2 == Min(start1, total - visible)
    IN IF total <= visible THEN <<0, total>>
       ELSE <<start2, Min(start2 + visible, total)>>

\* =================================================================== state
VARIABLES
    screen,           \* which entry point runs: "feature" (run_fullscreen) or "select" (select_match)
    os_name,          \* os.name
    stdin_isatty, stdout_isatty,
    key_loop_ok,      \* the remaining checks of _supports_tui / _supports_key_loop
    stdin_eof,        \* stdin is at end of file: every read returns no bytes
    feature,          \* the FeatureFull shown
    options,          \* select_match: the slugs of the matches, in order
    width, height,    \* console.size, as the next frame build will read it
    pc,               \* position of the one thread of control
    ctx,              \* the context managers entered and not yet exited, innermost last
    exc,              \* the exception in flight, or "none"
    loop,             \* the key loop: "idle", "running", "left_by_quit", "left_by_return", "left_by_error"
    state,            \* _run_tui: the _TuiState
    selected_idx,     \* select_match: the cursor
    key,              \* the key read_key returned, until it is applied
    fd, old_settings, \* _RawInput._fd, _RawInput._old_settings
    term_attrs,       \* the terminal's attributes
    setcbreak_calls, tcsetattr_calls,
    printed,          \* console.print was called
    result,           \* the value returned to the caller
    dec,              \* a decoder under test: its input source and the keys decoded
    fit,              \* _fit_browser_window under test: its arguments and results
    http,             \* fetch_html: its arguments, its locals and the attempts made
    cli,              \* cli.main: its position, its locals and the shared client context
    win               \* select_match's window under test: the list, the cursor and (start, stop)

envVars == <<screen, os_name, stdin_isatty, stdout_isatty, key_loop_ok, feature, options>>
sizeVars == <<width, height>>
guardVars == <<fd, old_settings, term_attrs, setcbreak_calls, tcsetattr_calls>>
loopVars == <<state, selected_idx, key>>
testVars == <<dec, fit, http, cli, win>>
vars == <<envVars, stdin_eof, sizeVars, pc, ctx, exc, loop, loopVars, guardVars,
          printed, result, testVars>>

Slugs == {"a", "b"}

\* The features shown: every browser configuration with no tabs, and every
\* tab configuration (with and without notes) over two blocks.
Features ==
    {FeatureFull(b, <<>>, FALSE, FALSE) : b \in BrowserConfigs}
    \cup {FeatureFull(BrowserBlocks(2, MaxRanges), t, d, n) :
             t \in TabConfigs, d \in BOOLEAN, n \in BOOLEAN}
WindowsFeatures == {FeatureFull(BrowserBlocks(2, MaxRanges), <<>>, FALSE, FALSE)}

\* Terminal sizes: the widths that fit 0..MaxCards whole cards at the short
\* height, the tall height at the narrowest width, and a terminal of one
\* column and one row.
ShortHeight == 24
TallHeight == 40
FeatureSizes ==
    {<<6 + _CARD_WIDTH * v, ShortHeight>> : v \in 0..MaxCards}
    \cup {<<6, TallHeight>>, <<1, 1>>}
SelectHeights == {7, 8}

\* The values of dec and fit while the decoders and the window fit are
\* exercised only through a session.
NoDecode == [which |-> "none", fd |-> "None", input |-> <<>>, tail |-> "idle", bytes |-> <<>>,
             keys |-> <<>>]
NoFit == [browser_count |-> 0, visible_count |-> 1, calls |-> 0,
          pre |-> _TuiState, state |-> _TuiState]

\* The values of http and cli while no fetch and no CLI run is going on.
\* Params are the `static` entry ("absent" or its value) and whether other
\* entries are present.
NoParams == [static |-> "absent", search |-> FALSE]
NoHttp == [pc |-> "idle", caller |-> "none", request_params |-> NoParams,
           allow_static_fallback |-> FALSE, shared_client |-> FALSE,
           timeout_default |-> TRUE, call |-> 0, retry_once |-> FALSE,
           current_params |-> NoParams, log |-> <<>>, result |-> "pending"]
NoCli == [pc |-> "off", full_mode |-> FALSE, entered |-> 0, exited |-> 0,
          active |-> FALSE, matches |-> 0, fetches |-> <<>>, outcome |-> "pending"]


NoWin == [total |-> 0, height |-> 0, selected_idx |-> 0, start |-> 0, stop |-> 0,
          last |-> "none"]

InitSession ==
    /\ stdin_isatty \in BOOLEAN
    /\ stdout_isatty \in BOOLEAN
    /\ key_loop_ok \in BOOLEAN
    /\ stdin_eof = FALSE
    /\ \/ /\ screen = "feature"
          /\ \/ os_name = "posix" /\ feature \in Features
             \/ os_name = "nt" /\ feature \in WindowsFeatures
          /\ options = <<>>
          /\ \E size \in FeatureSizes : width = size[1] /\ height = size[2]
       \/ /\ screen = "select"
          /\ os_name \in {"posix", "nt"}
          /\ feature = FeatureFull(<<>>, <<>>, FALSE, FALSE)
          /\ options \in SeqsUpTo(Slugs, MaxOptions)
          /\ width = 80
          /\ height \in SelectHeights
    /\ pc = "start"
    /\ ctx = <<>>
    /\ exc = "none"
    /\ loop = "idle"
    /\ state = _TuiState
    /\ selected_idx = 0
    /\ key = "none"
    /\ fd = "None"
    /\ old_settings = "None"
    /\ term_attrs = "cooked"
    /\ setcbreak_calls = 0
    /\ tcsetattr_calls = 0
    /\ printed = FALSE
    /\ result = "pending"

Init ==
    /\ InitSession
    /\ dec = NoDecode
    /\ fit = NoFit
    /\ http = NoHttp
    /\ cli = NoCli
    /\ win = NoWin

\* ============================================================== operations

\* _supports_tui that does not look at stdout.
_supports_tui_ignores_stdout == stdin_isatty /\ key_loop_ok

\* _supports_tui / _supports_key_loop
_supports_tui == stdin_isatty /\ stdout_isatty /\ key_loop_ok

\* run_fullscreen: the interactive screen when supported, else the static print.
RunFullscreen ==
    /\ pc = "start" /\ screen = "feature"
    /\ pc' = IF _supports_tui THEN "raw_enter" ELSE "static"
    /\ UNCHANGED <<envVars, stdin_eof, sizeVars, ctx, exc, loop, loopVars, guardVars,
                   printed, result, testVars>>

PrintStatic ==
    /\ pc = "static"
    /\ printed' = TRUE
    /\ result' = "None"
    /\ pc' = "returned"
    /\ UNCHANGED <<envVars, stdin_eof, sizeVars, ctx, exc, loop, loopVars, guardVars,
                   testVars>>

\* select_match without the early return for a single match.
SelectMatch_no_single_return ==
    /\ pc = "start" /\ screen = "select"
    /\ IF options = <<>>
       THEN result' = "None" /\ pc' = "returned" /\ printed' = printed
       ELSE IF ~stdin_isatty \/ ~stdout_isatty
       THEN result' = options[1] /\ pc' = "returned" /\ printed' = printed
       ELSE IF ~_supports_tui
       THEN result' = result /\ pc' = "prompt" /\ printed' = TRUE
       ELSE result' = result /\ pc' = "raw_enter" /\ printed' = printed
    /\ UNCHANGED <<envVars, stdin_eof, sizeVars, ctx, exc, loop, loopVars, guardVars,
                   testVars>>

\* select_match, up to the key loop: the early returns, the number prompt
\* when the key loop is unavailable.
SelectMatch ==
    /\ pc = "start" /\ screen = "select"
    /\ IF options = <<>>
       THEN result' = "None" /\ pc' = "returned" /\ printed' = printed
       ELSE IF Len(options) = 1
       THEN result' = options[1] /\ pc' = "returned" /\ printed' = printed
       ELSE IF ~stdin_isatty \/ ~stdout_isatty
       THEN result' = options[1] /\ pc' = "returned" /\ printed' = printed
       ELSE IF ~_supports_tui
       THEN result' = result /\ pc' = "prompt" /\ printed' = TRUE
       ELSE result' = result /\ pc' = "raw_enter" /\ printed' = printed
    /\ UNCHANGED <<envVars, stdin_eof, sizeVars, ctx, exc, loop, loopVars, guardVars,
                   testVars>>

\* The lines typed at the number prompt: words, as typed, and decimal
\* numbers (isdigit() holds of the stripped line; `value` is its int()).
PromptWords == {"q", "quit", "esc", "", "x", "Q", " Quit ", "-1"}
PromptInputs(opts) ==
    {[isdigit |-> FALSE, text |-> word, value |-> 0] : word \in PromptWords}
    \cup {[isdigit |-> TRUE, text |-> "digits", value |-> n] : n \in 0..(Len(opts) + 1)}

\* str.strip().lower() on the words typed.
StripLower(text) ==
    CASE text = "Q" -> "q"
      [] text = " Quit " -> "quit"
      [] OTHER -> text

\* _select_match_by_number accepting every number up to len(opts).
_select_match_by_number_no_lower_bound(line, opts) ==
    IF ~line.isdigit
    THEN [returns |-> StripLower(line.text) \in {"q", "quit", "esc"}, value |-> "None"]
    ELSE IF line.value <= Len(opts)
    THEN [returns |-> TRUE, value |-> PyIndex(opts, line.value - 1)]
    ELSE [returns |-> FALSE, value |-> "None"]

\* _select_match_by_number, one pass of its loop on the line typed: whether
\* it returns, and what.
_select_match_by_number(line, opts) ==
    IF ~line.isdigit
    THEN [returns |-> StripLower(line.text) \in {"q", "quit", "esc"}, value |-> "None"]
    ELSE IF 1 <= line.value /\ line.value <= Len(opts)
    THEN [returns |-> TRUE, value |-> PyIndex(opts, line.value - 1)]
    ELSE [returns |-> FALSE, value |-> "None"]

\* _select_match_by_number: one round of the prompt; an invalid line prints
\* the message and prompts again.
SelectByNumber ==
    /\ pc = "prompt"
    /\ \E line \in PromptInputs(options) :
          LET r == _select_match_by_number(line, options)
          IN IF r.returns
             THEN result' = r.value /\ pc' = "returned"
             ELSE result' = result /\ pc' = "prompt"
    /\ UNCHANGED <<envVars, stdin_eof, sizeVars, ctx, exc, loop, loopVars, guardVars,
                   printed, testVars>>

\* _RawInput.__enter__
RawEnter ==
    /\ pc = "raw_enter"
    /\ IF os_name = "nt"
       THEN UNCHANGED guardVars
       ELSE /\ fd' = "stdin"
            /\ old_settings' = term_attrs
            /\ term_attrs' = "cbreak"
            /\ setcbreak_calls' = setcbreak_calls + 1
            /\ UNCHANGED tcsetattr_calls
    /\ ctx' = <<"raw">>
    /\ pc' = "screen_enter"
    /\ UNCHANGED <<envVars, stdin_eof, sizeVars, exc, loop, loopVars, printed, result,
                   testVars>>

\* _RawInput.__enter__ raising: tcgetattr fails, or setcbreak fails and
\* leaves the attributes as they were.  __exit__ is not called.
RawEnterFails ==
    /\ pc = "raw_enter" /\ os_name # "nt"
    /\ fd' = "stdin"
    /\ \/ UNCHANGED <<old_settings, setcbreak_calls>>
       \/ old_settings' = term_attrs /\ setcbreak_calls' = setcbreak_calls + 1
    /\ exc' = "termios.error"
    /\ pc' = "raised"
    /\ UNCHANGED <<envVars, stdin_eof, sizeVars, ctx, loop, loopVars, term_attrs,
                   tcsetattr_calls, printed, result, testVars>>

\* console.screen(hide_cursor=True).__enter__
EnterScreen ==
    /\ pc = "screen_enter"
    /\ ctx' = Append(ctx, "screen")
    /\ pc' = "live_enter"
    /\ UNCHANGED <<envVars, stdin_eof, sizeVars, exc, loop, loopVars, guardVars,
                   printed, result, testVars>>

\* select._build_frame over range(start, stop): the rows drawn, and whether
\* every index is one of `matches`.
_build_frame(matches, idx, start, stop) ==
    [kind |-> "list", start |-> start, stop |-> stop, selected |-> idx,
     ok |-> \A index \in start..(stop - 1) : PyIndexOK(index, Len(matches))]

\* Live(<initial frame>, ...).__enter__: the initial frame is built and shown.
EnterLive ==
    /\ pc = "live_enter"
    /\ \E built \in {IF screen = "feature"
                      THEN _build_layout(feature, state, width, height).state
                      ELSE state} : state' = built
    /\ ctx' = Append(ctx, "live")
    /\ loop' = "running"
    /\ pc' = "draw"
    /\ UNCHANGED <<envVars, stdin_eof, sizeVars, exc, selected_idx, key, guardVars,
                   printed, result, testVars>>

\* The terminal is resized; the program sees it when it next builds a frame.
Resize ==
    /\ pc \in {"live_enter", "draw"}
    /\ IF screen = "feature"
       THEN \E size \in FeatureSizes :
               size # <<width, height>> /\ width' = size[1] /\ height' = size[2]
       ELSE \E h \in SelectHeights : h # height /\ height' = h /\ width' = width
    /\ UNCHANGED <<envVars, stdin_eof, pc, ctx, exc, loop, loopVars, guardVars,
                   printed, result, testVars>>

\* stdin reaches end of file (the terminal hangs up, the pipe closes).
StdinCloses ==
    /\ pc = "read" /\ os_name # "nt" /\ ~stdin_eof
    /\ stdin_eof' = TRUE
    /\ UNCHANGED <<envVars, sizeVars, pc, ctx, exc, loop, loopVars, guardVars,
                   printed, result, testVars>>

\* _run_tui, loop body: live.update(_build_layout(feature, state, console))
Draw ==
    /\ pc = "draw" /\ screen = "feature"
    /\ \E layout \in {_build_layout(feature, state, width, height)} :
          IF layout.ok
          THEN /\ state' = layout.state
               /\ pc' = "read"
               /\ UNCHANGED <<exc, loop>>
          ELSE /\ exc' = "IndexError"
               /\ loop' = "left_by_error"
               /\ pc' = "unwind"
               /\ UNCHANGED state
    /\ UNCHANGED <<envVars, stdin_eof, sizeVars, ctx, selected_idx, key, guardVars,
                   printed, result, testVars>>

\* _RawInput.read_key (fullscreen)
ReadKey ==
    /\ pc = "read" /\ screen = "feature"
    /\ IF os_name = "nt"
       THEN \E char \in WindowsChars, special \in WindowsSpecials :
               key' = _read_key_windows(char, special)
       ELSE IF fd = "None"
       THEN key' = "noop"
       ELSE IF stdin_eof
       THEN key' = _read_key_posix(<<>>, "eof").key
       ELSE \E bytes \in Keystrokes : key' = _read_key_posix(bytes, "idle").key
    /\ pc' = "apply"
    /\ UNCHANGED <<envVars, stdin_eof, sizeVars, ctx, exc, loop, state, selected_idx,
                   guardVars, printed, result, testVars>>

\* _run_tui, loop body: if not _apply_key(key, state, feature): break
ApplyKey ==
    /\ pc = "apply" /\ screen = "feature"
    /\ LET r == _apply_key(key, state, feature)
       IN IF r.error # "none"
          THEN exc' = r.error /\ loop' = "left_by_error" /\ pc' = "unwind"
               /\ state' = state
          ELSE /\ state' = r.state
               /\ exc' = exc
               /\ IF r.continue
                  THEN pc' = "draw" /\ loop' = loop
                  ELSE pc' = "unwind" /\ loop' = "left_by_quit"
    /\ key' = "none"
    /\ UNCHANGED <<envVars, stdin_eof, sizeVars, ctx, selected_idx, guardVars,
                   printed, result, testVars>>

\* select_match, loop body: the window, then live.update(_build_frame(...))
SelectDraw ==
    /\ pc = "draw" /\ screen = "select"
    /\ LET window == _visible_window(selected_idx, Len(options), height)
       IN IF _build_frame(options, selected_idx, window[1], window[2]).ok
          THEN /\ pc' = "read"
               /\ UNCHANGED <<exc, loop>>
          ELSE /\ exc' = "IndexError"
               /\ loop' = "left_by_error"
               /\ pc' = "unwind"
    /\ UNCHANGED <<envVars, stdin_eof, sizeVars, ctx, state, selected_idx, key,
                   guardVars, printed, result, testVars>>

\* _RawInput.read_key (select)
SelectReadKey ==
    /\ pc = "read" /\ screen = "select"
    /\ IF os_name = "nt"
       THEN \E char \in WindowsChars, special \in WindowsSpecials :
               key' = select_read_key_windows(char, special)
       ELSE IF fd = "None"
       THEN key' = "noop"
       ELSE IF stdin_eof
       THEN key' = select_read_key_posix(<<>>, "eof").key
       ELSE \E bytes \in Keystrokes : key' = select_read_key_posix(bytes, "idle").key
    /\ pc' = "apply"
    /\ UNCHANGED <<envVars, stdin_eof, sizeVars, ctx, exc, loop, state, selected_idx,
                   guardVars, printed, result, testVars>>

\* select_match's key dispatch with `down` wrapping to the first match.
SelectApply_down_wraps ==
    /\ pc = "apply" /\ screen = "select"
    /\ CASE key = "up" ->
              /\ selected_idx' = Max(0, selected_idx - 1)
              /\ pc' = "draw"
              /\ UNCHANGED <<loop, result>>
         [] key = "down" ->
              /\ selected_idx' = (selected_idx + 1) % Len(options)
              /\ pc' = "draw"
              /\ UNCHANGED <<loop, result>>
         [] key = "enter" ->
              /\ result' = PyIndex(options, selected_idx)
              /\ loop' = "left_by_return"
              /\ pc' = "unwind"
              /\ UNCHANGED selected_idx
         [] key = "quit" ->
              /\ result' = "None"
              /\ loop' = "left_by_quit"
              /\ pc' = "unwind"
              /\ UNCHANGED selected_idx
         [] OTHER ->
              /\ pc' = "draw"
              /\ UNCHANGED <<selected_idx, loop, result>>
    /\ key' = "none"
    /\ UNCHANGED <<envVars, stdin_eof, sizeVars, ctx, exc, state, guardVars, printed,
                   testVars>>

\* select_match, loop body: the key dispatch
SelectApply ==
    /\ pc = "apply" /\ screen = "select"
    /\ CASE key = "up" ->
              /\ selected_idx' = Max(0, selected_idx - 1)
              /\ pc' = "draw"
              /\ UNCHANGED <<loop, result>>
         [] key = "down" ->
              /\ selected_idx' = Min(Len(options) - 1, selected_idx + 1)
              /\ pc' = "draw"
              /\ UNCHANGED <<loop, result>>
         [] key = "enter" ->
              /\ result' = PyIndex(options, selected_idx)
              /\ loop' = "left_by_return"
              /\ pc' = "unwind"
              /\ UNCHANGED selected_idx
         [] key = "quit" ->
              /\ result' = "None"
              /\ loop' = "left_by_quit"
              /\ pc' = "unwind"
              /\ UNCHANGED selected_idx
         [] OTHER ->
              /\ pc' = "draw"
              /\ UNCHANGED <<selected_idx, loop, result>>
    /\ key' = "none"
    /\ UNCHANGED <<envVars, stdin_eof, sizeVars, ctx, exc, state, guardVars, printed,
                   testVars>>

\* An exception raised inside the with statement, after the guard was
\* entered: entering the screen or Live, building or drawing a frame,
\* reading a key (OSError), a KeyboardInterrupt anywhere.
InWith == {"screen_enter", "live_enter", "draw", "read", "apply"}
Raise ==
    /\ pc \in InWith
    /\ exc' = "Exception"
    /\ loop' = IF loop = "running" THEN "left_by_error" ELSE loop
    /\ pc' = "unwind"
    /\ key' = "none"
    /\ UNCHANGED <<envVars, stdin_eof, sizeVars, ctx, state, selected_idx, guardVars,
                   printed, result, testVars>>

\* Live.__exit__ and console.screen().__exit__, innermost first, for the
\* contexts that were entered.
ExitInner ==
    /\ pc = "unwind" /\ Len(ctx) > 1
    /\ ctx' = <<"raw">>
    /\ UNCHANGED <<envVars, stdin_eof, sizeVars, pc, exc, loop, loopVars, guardVars,
                   printed, result, testVars>>

\* _RawInput.__exit__ restoring only when the block ended without an exception.
RawExit_skips_on_exception ==
    /\ pc = "unwind" /\ ctx = <<"raw">>
    /\ ctx' = <<>>
    /\ IF os_name = "nt" \/ fd = "None" \/ old_settings = "None" \/ exc # "none"
       THEN UNCHANGED <<guardVars, exc>>
       ELSE /\ tcsetattr_calls' = tcsetattr_calls + 1
            /\ \E fails \in BOOLEAN :
                  IF fails
                  THEN exc' = "tcsetattr_error" /\ term_attrs' = term_attrs
                  ELSE exc' = exc /\ term_attrs' = old_settings
            /\ UNCHANGED <<fd, old_settings, setcbreak_calls>>
    /\ pc' = IF exc' = "none" THEN "returned" ELSE "raised"
    /\ UNCHANGED <<envVars, stdin_eof, sizeVars, loop, loopVars, printed, result,
                   testVars>>


\* _RawInput.__exit__ calling tcsetattr a second time when the first call fails.
RawExit_retries_on_failure ==
    /\ pc = "unwind" /\ ctx = <<"raw">>
    /\ ctx' = <<>>
    /\ IF os_name = "nt" \/ fd = "None" \/ old_settings = "None"
       THEN UNCHANGED <<guardVars, exc>>
       ELSE /\ \E fails \in BOOLEAN :
                  IF fails
                  THEN /\ exc' = "tcsetattr_error" /\ term_attrs' = term_attrs
                       /\ tcsetattr_calls' = tcsetattr_calls + 2
                  ELSE /\ exc' = exc /\ term_attrs' = old_settings
                       /\ tcsetattr_calls' = tcsetattr_calls + 1
            /\ UNCHANGED <<fd, old_settings, setcbreak_calls>>
    /\ pc' = IF exc' = "none" THEN "returned" ELSE "raised"
    /\ UNCHANGED <<envVars, stdin_eof, sizeVars, loop, loopVars, printed, result,
                   testVars>>

\* _RawInput.__exit__, then the function returns or the exception propagates.
\* tcsetattr may itself fail (termios.error); nothing catches it.
RawExit ==
    /\ pc = "unwind" /\ ctx = <<"raw">>
    /\ ctx' = <<>>
    /\ IF os_name = "nt" \/ fd = "None" \/ old_settings = "None"
       THEN UNCHANGED <<guardVars, exc>>
       ELSE /\ tcsetattr_calls' = tcsetattr_calls + 1
            /\ \E fails \in BOOLEAN :
                  IF fails
                  THEN exc' = "tcsetattr_error" /\ term_attrs' = term_attrs
                  ELSE exc' = exc /\ term_attrs' = old_settings
            /\ UNCHANGED <<fd, old_settings, setcbreak_calls>>
    /\ pc' = IF exc' = "none" THEN "returned" ELSE "raised"
    /\ UNCHANGED <<envVars, stdin_eof, sizeVars, loop, loopVars, printed, result,
                   testVars>>

Next ==
    \/ RunFullscreen \/ PrintStatic \/ SelectMatch \/ SelectByNumber
    \/ RawEnter \/ RawEnterFails \/ EnterScreen \/ EnterLive
    \/ Resize \/ StdinCloses
    \/ Draw \/ ReadKey \/ ApplyKey
    \/ SelectDraw \/ SelectReadKey \/ SelectApply
    \/ Raise \/ ExitInner \/ RawExit

Spec == Init /\ [][Next]_vars

\* The steps the one thread of control takes by itself.  A read returns at
\* once at end of file; otherwise it waits for the user, who need not type.
ProgramStep ==
    \/ RunFullscreen \/ PrintStatic \/ SelectMatch
    \/ RawEnter \/ EnterScreen \/ EnterLive
    \/ Draw \/ (stdin_eof /\ ReadKey) \/ ApplyKey
    \/ SelectDraw \/ (stdin_eof /\ SelectReadKey) \/ SelectApply
    \/ ExitInner \/ RawExit

FairSpec == Spec /\ WF_vars(ProgramStep)

\* ------------------------------------------------- the decoders, on their own
MaxCont == 2

DecodeInputs ==
    {<<>>} \cup {<<b>> \o cont : b \in FirstBytes, cont \in SeqsUpTo(ContBytes, MaxCont)}

ParkedSession ==
    /\ screen = "none" /\ os_name = "posix"
    /\ stdin_isatty = FALSE /\ stdout_isatty = FALSE /\ key_loop_ok = FALSE
    /\ stdin_eof = FALSE
    /\ feature = FeatureFull(<<>>, <<>>, FALSE, FALSE) /\ options = <<>>
    /\ width = 80 /\ height = ShortHeight
    /\ pc = "off" /\ ctx = <<>> /\ exc = "none" /\ loop = "idle"
    /\ state = _TuiState /\ selected_idx = 0 /\ key = "none"
    /\ fd = "None" /\ old_settings = "None" /\ term_attrs = "cooked"
    /\ setcbreak_calls = 0 /\ tcsetattr_calls = 0
    /\ printed = FALSE /\ result = "pending"

sessionVars == <<envVars, stdin_eof, sizeVars, pc, ctx, exc, loop, loopVars, guardVars,
                 printed, result>>

DecodeInit ==
    /\ ParkedSession
    /\ win = NoWin
    /\ fit = NoFit
    /\ http = NoHttp
    /\ cli = NoCli
    /\ \E which \in {"fullscreen", "select"}, guard_fd \in {"None", "stdin"},
          input \in DecodeInputs, tail \in Tails :
          dec = [which |-> which, fd |-> guard_fd, input |-> input, tail |-> tail,
                 bytes |-> input, keys |-> <<>>]

\* read_key may be called (again): nothing was read yet, or the last call
\* returned and bytes are left.  A guard that was never entered is read once.
CanDecode ==
    IF dec.keys = <<>> THEN TRUE
    ELSE /\ dec.fd # "None"
         /\ dec.bytes # <<>> /\ dec.keys[Len(dec.keys)] \notin {"BLOCKED", "HANG"}

DecodeFullscreen ==
    /\ dec.which = "fullscreen" /\ CanDecode
    /\ LET r == IF dec.fd = "None" THEN [key |-> "noop", rest |-> dec.bytes]
                ELSE _read_key_posix(dec.bytes, dec.tail)
       IN dec' = [dec EXCEPT !.bytes = r.rest, !.keys = Append(@, r.key)]
    /\ UNCHANGED <<sessionVars, fit, http, cli, win>>

DecodeSelect ==
    /\ dec.which = "select" /\ CanDecode
    /\ LET r == IF dec.fd = "None" THEN [key |-> "noop", rest |-> dec.bytes]
                ELSE select_read_key_posix(dec.bytes, dec.tail)
       IN dec' = [dec EXCEPT !.bytes = r.rest, !.keys = Append(@, r.key)]
    /\ UNCHANGED <<sessionVars, fit, http, cli, win>>

DecodeNext == DecodeFullscreen \/ DecodeSelect

DecodeSpec == DecodeInit /\ [][DecodeNext]_vars

\* --------------------------------------- _fit_browser_window, on its own
MaxFitCount == 5
MaxFitVisible == 4
FitSlack == 2

FitInit ==
    /\ ParkedSession
    /\ win = NoWin
    /\ dec = NoDecode
    /\ http = NoHttp
    /\ cli = NoCli
    /\ \E n \in 0..MaxFitCount, v \in 1..MaxFitVisible,
          sel \in (-FitSlack)..(MaxFitCount + FitSlack),
          off \in (-FitSlack)..(MaxFitCount + FitSlack) :
          fit = [browser_count |-> n, visible_count |-> v, calls |-> 0,
                 pre |-> [_TuiState EXCEPT !.selected_browser = sel,
                                           !.browser_offset = off],
                 state |-> [_TuiState EXCEPT !.selected_browser = sel,
                                             !.browser_offset = off]]

\* One call on the state the previous call left.
FitCall ==
    /\ fit.calls < 2
    /\ fit' = [fit EXCEPT
                  !.pre = fit.state,
                  !.state = _fit_browser_window(fit.state, fit.browser_count,
                                                fit.visible_count),
                  !.calls = @ + 1]
    /\ UNCHANGED <<sessionVars, dec, http, cli, win>>

FitNext == FitCall

FitSpec == FitInit /\ [][FitNext]_vars


\* ------------------------------- the carousel under `right`, frame by frame
MaxCarousel == 7

\* A feature with n browser blocks and no tabs, and the terminal width at
\* which exactly v cards fit.
CarouselFeature(n) == FeatureFull(BrowserBlocks(n, 1), <<>>, FALSE, FALSE)
CarouselWidth(v) == 6 + _CARD_WIDTH * v

\* _run_tui up to its first frame: the zeroed state, as the first
\* _build_layout leaves it.
CarouselInit ==
    /\ ParkedSession
    /\ win = NoWin
    /\ dec = NoDecode
    /\ http = NoHttp
    /\ cli = NoCli
    /\ \E n \in 1..MaxCarousel, v \in 1..MaxFitVisible :
          fit = [browser_count |-> n, visible_count |-> v, calls |-> 0,
                 pre |-> _TuiState,
                 state |-> _build_layout(CarouselFeature(n), _TuiState, CarouselWidth(v),
                                         ShortHeight).state]

\* One pass of the loop of _run_tui with the key `right`: _apply_key, then
\* the next frame is built.
PressRight ==
    /\ fit.calls < fit.browser_count
    /\ LET shown == CarouselFeature(fit.browser_count)
           applied == _apply_key("right", fit.state, shown).state
       IN fit' = [fit EXCEPT
                     !.pre = fit.state,
                     !.state = _build_layout(shown, applied,
                                             CarouselWidth(fit.visible_count),
                                             ShortHeight).state,
                     !.calls = @ + 1]
    /\ UNCHANGED <<sessionVars, dec, http, cli, win>>

CarouselNext == PressRight

CarouselSpec == CarouselInit /\ [][CarouselNext]_vars

\* ------------------------------------------------------ fetch_html, on its own
\* What one client.get does: a response with status 200 and a body, with
\* status 200 and a blank body, with another status, or one of the httpx
\* exceptions fetch_html handles.
Outcomes == {"200", "blank200", "non200", "TimeoutException", "ConnectError",
             "RequestError"}
StaticValues == {"absent", "1", "0"}

\* _request whose handler for a timeout retries as the one for ConnectError does.
_request_retries_timeout(outcome, retry_once) ==
    CASE outcome \in {"ConnectError", "TimeoutException"} ->
            IF retry_once
            THEN [next |-> "continue", value |-> "none", retry_once |-> FALSE]
            ELSE [next |-> "raise", retry_once |-> retry_once,
                  value |-> IF outcome = "ConnectError" THEN "NetworkError"
                            ELSE "RequestTimeoutError"]
      [] outcome = "RequestError" ->
            [next |-> "raise", value |-> "NetworkError", retry_once |-> retry_once]
      [] outcome = "non200" ->
            [next |-> "raise", value |-> "HttpStatusError", retry_once |-> retry_once]
      [] outcome = "blank200" ->
            [next |-> "raise", value |-> "ContentError", retry_once |-> retry_once]
      [] OTHER ->
            [next |-> "return", value |-> "body", retry_once |-> retry_once]

\* fetch_html._request: one pass of its `while True` on the outcome of
\* client.get: go round again, raise, or return the body.
_request(outcome, retry_once) ==
    CASE outcome = "TimeoutException" ->
            [next |-> "raise", value |-> "RequestTimeoutError", retry_once |-> retry_once]
      [] outcome = "ConnectError" ->
            IF retry_once
            THEN [next |-> "continue", value |-> "none", retry_once |-> FALSE]
            ELSE [next |-> "raise", value |-> "NetworkError", retry_once |-> retry_once]
      [] outcome = "RequestError" ->
            [next |-> "raise", value |-> "NetworkError", retry_once |-> retry_once]
      [] outcome = "non200" ->
            [next |-> "raise", value |-> "HttpStatusError", retry_once |-> retry_once]
      [] outcome = "blank200" ->
            [next |-> "raise", value |-> "ContentError", retry_once |-> retry_once]
      [] OTHER ->
            [next |-> "return", value |-> "body", retry_once |-> retry_once]

\* The fallback test of fetch_html's handler without the flag.
StaticFallback_ignores_flag(allow_static_fallback, request_params) ==
    request_params.static = "1"

\* fetch_html, `except HttpStatusError`: whether the request is made again
\* without `static`.
StaticFallback(allow_static_fallback, request_params) ==
    allow_static_fallback /\ request_params.static = "1"

\* A call of fetch_html with the given arguments, about to run.
Called(caller, params, allow_static_fallback, shared_client, timeout_default) ==
    [NoHttp EXCEPT !.pc = "called", !.caller = caller, !.request_params = params,
                   !.allow_static_fallback = allow_static_fallback,
                   !.shared_client = shared_client,
                   !.timeout_default = timeout_default]

FetchInit ==
    /\ ParkedSession
    /\ win = NoWin
    /\ dec = NoDecode
    /\ fit = NoFit
    /\ cli = NoCli
    /\ \E static \in StaticValues, search \in BOOLEAN, allow \in BOOLEAN,
          shared \in BOOLEAN, timeout_default \in BOOLEAN :
          http = Called("test", [static |-> static, search |-> search], allow, shared,
                        timeout_default)

\* fetch_html up to its first _request(request_params).
FetchHtml ==
    /\ http.pc = "called"
    /\ http' = [http EXCEPT !.pc = "request", !.call = 1, !.retry_once = TRUE,
                            !.current_params = http.request_params]
    /\ UNCHANGED <<sessionVars, dec, fit, cli, win>>

\* One client.get inside _request and what follows from its outcome: another
\* pass, the body returned, the fallback _request begun, or the error
\* leaving fetch_html.
Request ==
    /\ http.pc = "request"
    /\ \E outcome \in Outcomes :
          LET r == _request(outcome, http.retry_once)
              client == IF ~http.shared_client \/ ~http.timeout_default
                        THEN "own" ELSE "shared"
              log == Append(http.log, [call |-> http.call, params |-> http.current_params,
                                       outcome |-> outcome, client |-> client])
          IN http' =
               IF r.next = "continue"
               THEN [http EXCEPT !.retry_once = r.retry_once, !.log = log]
               ELSE IF r.next = "return"
               THEN [http EXCEPT !.pc = "returned", !.result = r.value, !.log = log]
               ELSE IF /\ r.value = "HttpStatusError" /\ http.call = 1
                       /\ StaticFallback(http.allow_static_fallback, http.request_params)
               THEN [http EXCEPT !.call = 2, !.retry_once = TRUE,
                                 !.current_params = [http.request_params
                                                        EXCEPT !.static = "absent"],
                                 !.log = log]
               ELSE [http EXCEPT !.pc = "raised", !.result = r.value, !.log = log]
    /\ UNCHANGED <<sessionVars, dec, fit, cli, win>>

FetchNext == FetchHtml \/ Request

FetchSpec == FetchInit /\ [][FetchNext]_vars


\* ------------------------------------------------------------ cli.main
\* cli.entered, cli.exited and cli.active count and track the
\* use_shared_client context (http.py); no statement of main enters it.
MaxMatches == 3

CliInit ==
    /\ ParkedSession
    /\ win = NoWin
    /\ dec = NoDecode
    /\ fit = NoFit
    /\ http = NoHttp
    /\ \E full_mode \in BOOLEAN : cli = [NoCli EXCEPT !.pc = "start", !.full_mode = full_mode]

\* main: fetch_search_page(query_text), which calls fetch_html with
\* search=<query> and static=1.  _SHARED_CLIENT holds a client only inside
\* use_shared_client.
CliFetchSearch ==
    /\ cli.pc = "start"
    /\ http' = Called("fetch_search_page", [static |-> "1", search |-> TRUE], FALSE,
                      cli.active, TRUE)
    /\ cli' = [cli EXCEPT !.pc = "search",
                          !.fetches = Append(@, [page |-> "search", in_context |-> cli.active])]
    /\ UNCHANGED <<sessionVars, dec, fit, win>>

\* main, from the search page to the slug: a CaniuseError of the fetch
\* becomes a ClickException; no match exits with 1; an exact or single match
\* is taken; otherwise select_match picks one or returns None (exit 1).
CliParseSearch ==
    /\ cli.pc = "search" /\ http.pc \in {"returned", "raised"}
    /\ IF http.pc = "raised"
       THEN cli' = [cli EXCEPT !.pc = "done", !.outcome = "ClickException"]
       ELSE \E n \in 0..MaxMatches, exact_match \in BOOLEAN, selected \in BOOLEAN :
               cli' = IF n = 0
                      THEN [cli EXCEPT !.pc = "done", !.outcome = "Exit(1)", !.matches = n]
                      ELSE IF exact_match \/ n = 1 \/ selected
                      THEN [cli EXCEPT !.pc = "feature_call", !.matches = n]
                      ELSE [cli EXCEPT !.pc = "done", !.outcome = "Exit(1)", !.matches = n]
    /\ UNCHANGED <<sessionVars, dec, fit, http, win>>

\* main: fetch_feature_page(slug), which calls fetch_html with static=1 and
\* allow_static_fallback=True.
CliFetchFeature ==
    /\ cli.pc = "feature_call"
    /\ http' = Called("fetch_feature_page", [static |-> "1", search |-> FALSE], TRUE,
                      cli.active, TRUE)
    /\ cli' = [cli EXCEPT !.pc = "feature",
                          !.fetches = Append(@, [page |-> "feature", in_context |-> cli.active])]
    /\ UNCHANGED <<sessionVars, dec, fit, win>>

\* main, from the feature page to the end: a CaniuseError of the fetch
\* becomes a ClickException; full mode runs run_fullscreen, which returns or
\* lets an exception through; basic mode prints.
CliRender ==
    /\ cli.pc = "feature" /\ http.pc \in {"returned", "raised"}
    /\ IF http.pc = "raised"
       THEN cli' = [cli EXCEPT !.pc = "done", !.outcome = "ClickException"]
       ELSE IF cli.full_mode
       THEN \E returns \in BOOLEAN :
               cli' = [cli EXCEPT !.pc = "done",
                                  !.outcome = IF returns THEN "returned" ELSE "raised"]
       ELSE cli' = [cli EXCEPT !.pc = "done", !.outcome = "returned"]
    /\ UNCHANGED <<sessionVars, dec, fit, http, win>>

CliNext ==
    \/ CliFetchSearch \/ CliParseSearch \/ CliFetchFeature \/ CliRender
    \/ FetchHtml \/ Request

CliSpec == CliInit /\ [][CliNext]_vars

\* ===================================================================== claims

\* ----------------------------- select_match's window, on its own
MaxWinTotal == 5
MaxWinHeight == 10

\* The window select_match draws: `start, stop = _visible_window(selected_idx,
\* len(options), console.size.height)` at the top of its loop.
Window(w) ==
    LET window == _visible_window(w.selected_idx, w.total, w.height)
    IN [w EXCEPT !.start = window[1], !.stop = window[2]]

\* select_match up to its first pass of the loop: the cursor on the first
\* match, at any list length and terminal height.
WindowInit ==
    /\ ParkedSession
    /\ dec = NoDecode
    /\ fit = NoFit
    /\ http = NoHttp
    /\ cli = NoCli
    /\ \E total \in 1..MaxWinTotal, h \in 0..MaxWinHeight :
          win = Window([total |-> total, height |-> h, selected_idx |-> 0,
                        start |-> 0, stop |-> 0, last |-> "init"])

\* One pass of the loop with `up` or `down`: the cursor moves, clamped, and
\* the next pass computes the window.
WinMove ==
    /\ \E k \in {"up", "down"} :
          win' = Window([win EXCEPT
                            !.selected_idx = IF k = "up" THEN Max(0, @ - 1)
                                             ELSE Min(win.total - 1, @ + 1),
                            !.last = k])
    /\ UNCHANGED <<sessionVars, dec, fit, http, cli>>

\* The terminal is resized between two passes: the next pass reads the new
\* console.size.height.
WinResize ==
    /\ \E h \in 0..MaxWinHeight :
          /\ h # win.height
          /\ win' = Window([win EXCEPT !.height = h, !.last = "resize"])
    /\ UNCHANGED <<sessionVars, dec, fit, http, cli>>

WindowNext == WinMove \/ WinResize

WindowSpec == WindowInit /\ [][WindowNext]_vars

\* C1: on POSIX, once __enter__ has saved the attributes and set cbreak mode,
\* every way out of either screen (quit, Enter, any exception inside the with
\* block) has called tcsetattr with the saved attributes exactly once, and
\* unless that very call failed the terminal is back in the saved mode and
\* not in cbreak mode.
C1_RestoredOnEveryExit ==
    (/\ pc \in {"returned", "raised"}
     /\ os_name = "posix" /\ setcbreak_calls = 1 /\ exc # "termios.error")
    => /\ tcsetattr_calls = 1
       /\ exc # "tcsetattr_error" => (term_attrs = old_settings /\ term_attrs # "cbreak")

\* An exception left the selection loop and the terminal is cooked again.
C1_Witness ==
    /\ screen = "select" /\ pc = "raised" /\ exc = "Exception"
    /\ loop = "left_by_error" /\ setcbreak_calls = 1
    /\ tcsetattr_calls = 1 /\ term_attrs = "cooked"

\* C2: applying quit returns False and changes no field of the state, from
\* every state; the loop is left at once, and once it was left by quit no
\* frame is drawn, no key is read and the state never changes again.
C2_QuitIsTerminal ==
    /\ [](screen = "feature" /\ pc = "apply" /\ key = "quit"
            => \A sb, bo \in 0..MaxBrowsers, rs \in 0..MaxRanges, ti \in 0..(MaxTabs + 1),
                  ts \in {0, PageStep} :
                  LET st == [selected_browser |-> sb, browser_offset |-> bo,
                             range_scroll |-> rs, tab_index |-> ti, tab_scroll |-> ts]
                      r == _apply_key("quit", st, feature)
                  IN ~r.continue /\ r.state = st /\ r.error = "none")
    /\ [][(screen = "feature" /\ pc = "apply" /\ key = "quit" /\ exc' = exc /\ pc' # pc)
            => (state' = state /\ loop' = "left_by_quit" /\ pc' = "unwind")]_vars
    /\ [](loop = "left_by_quit" => pc \in {"unwind", "returned", "raised"})
    /\ [][loop = "left_by_quit" => (state' = state /\ loop' = loop)]_vars

\* The loop was left by quit after the state had moved off zero.
C2_Witness ==
    /\ screen = "feature" /\ loop = "left_by_quit" /\ pc = "returned"
    /\ state.selected_browser > 0 /\ state.tab_index > 0

\* C3: with stdin at end of file the feature-screen loop eventually leaves its
\* loop.
C3_LoopExitsOnEOF ==
    (screen = "feature" /\ loop = "running" /\ stdin_eof) ~> (loop # "running")

\* C4: the loop is left (without an exception) only by applying quit; every
\* other key, noop included, leads back to the draw with the loop running;
\* the steps go draw, read, apply in that order, and the one frame before a
\* read is built from the state as it then is.
C4_LoopDiscipline ==
    [][(screen = "feature" /\ loop = "running" /\ exc' = "none")
        => /\ loop' # "running" => (pc = "apply" /\ key = "quit")
           /\ (pc = "apply" /\ key # "quit" /\ pc' # pc)
                 => (loop' = "running" /\ pc' = "draw")
           /\ pc' # pc => <<pc, pc'>> \in {<<"draw", "read">>, <<"read", "apply">>,
                                           <<"apply", "draw">>, <<"apply", "unwind">>}
           /\ pc' = "read" /\ pc # "read"
                 => state' = _build_layout(feature, state, width, height).state
           /\ pc = "read" => state' = state]_vars

\* A noop was read at end of file and the loop went on to draw again.
C4_Witness ==
    /\ screen = "feature" /\ loop = "running" /\ pc = "read" /\ stdin_eof
    /\ state.range_scroll > 0

\* C5: for every browser count N >= 0, visible count V >= 1 and every
\* pre-state, _fit_browser_window leaves 0 <= browser_offset <= max(N-V, 0);
\* with N > 0 it leaves 0 <= selected_browser <= N-1 and
\* browser_offset <= selected_browser < browser_offset + V; with N = 0 both
\* are 0.
C5_WindowingInvariant ==
    fit.calls >= 1
    => LET N == fit.browser_count
           V == fit.visible_count
           S == fit.state.browser_offset
           C == fit.state.selected_browser
       IN /\ 0 <= S /\ S <= Max(N - V, 0)
          /\ N > 0 => (0 <= C /\ C <= N - 1 /\ S <= C /\ C < S + V)
          /\ N = 0 => (S = 0 /\ C = 0)

\* A too-large cursor was clamped and the window moved right to hold it.
C5_Witness ==
    /\ fit.calls = 1
    /\ fit.browser_count = MaxFitCount /\ fit.visible_count = 2
    /\ fit.pre.selected_browser > MaxFitCount /\ fit.pre.browser_offset < 0
    /\ fit.state.selected_browser = MaxFitCount - 1
    /\ fit.state.browser_offset = MaxFitCount - 2

\* C6 as stated: while the loop runs, after every transition and every resize
\* the selected browser lies in [browser_offset, browser_offset + V) for the
\* V of the current width.
C6_AlwaysInWindow ==
    (screen = "feature" /\ loop = "running" /\ feature.browser_blocks # <<>>)
    => LET V == _build_layout(feature, state, width, height).frame.support.visible_count
       IN /\ state.browser_offset <= state.selected_browser
          /\ state.selected_browser < state.browser_offset + V

\* C6, amended: in every frame that is built, and in the state that frame
\* leaves until the next transition, the selected browser lies in
\* [browser_offset, browser_offset + V) for the V of the width the frame was
\* built with, and the frame draws exactly the browsers with index in
\* [browser_offset, min(browser_offset + V, N)).
C6_InWindowAtEveryFrame ==
    /\ []((screen = "feature" /\ pc \in {"read", "apply"}
            /\ feature.browser_blocks # <<>>)
           => LET V == _build_layout(feature, state, width, height)
                          .frame.support.visible_count
              IN /\ state.browser_offset <= state.selected_browser
                 /\ state.selected_browser < state.browser_offset + V)
    /\ [][(screen = "feature" /\ pc = "draw" /\ pc' = "read")
            => LET panel == _build_layout(feature, state, width, height).frame.support
                   N == Len(feature.browser_blocks)
               IN IF N = 0 THEN panel.kind = "no_blocks"
                  ELSE /\ panel.kind = "cards"
                       /\ panel.start = state'.browser_offset
                       /\ panel.stop = Min(panel.start + panel.visible_count, N)
                       /\ panel.start <= state'.selected_browser
                       /\ state'.selected_browser < panel.stop]_vars

\* A frame was built after the window had to move right: one card fits and
\* the cursor is on the last browser.
C6_Witness ==
    /\ screen = "feature" /\ pc = "read" /\ width = 6 + _CARD_WIDTH
    /\ Len(feature.browser_blocks) = MaxBrowsers
    /\ state.selected_browser = MaxBrowsers - 1
    /\ state.browser_offset = MaxBrowsers - 1

\* C7: in every state of the feature screen selected_browser is in
\* [0, browser count) (0 when there are no browsers) and tab_index is in
\* [0, section count).
C7_IndicesInRange ==
    screen = "feature"
    => /\ 0 <= state.selected_browser
       /\ state.selected_browser <= Max(Len(feature.browser_blocks) - 1, 0)
       /\ 0 <= state.tab_index
       /\ state.tab_index < Len(_tab_sections(feature))

\* Both indices sit on their last position, with more than two sections.
C7_Witness ==
    /\ screen = "feature" /\ pc = "draw" /\ loop = "running"
    /\ Len(_tab_sections(feature)) > 2
    /\ state.selected_browser = Len(feature.browser_blocks) - 1
    /\ state.selected_browser > 0
    /\ state.tab_index = Len(_tab_sections(feature)) - 1

\* C8 as stated: while the loop runs every scroll offset is within
\* [0, max(len - visible, 0)], range_scroll against the focused browser's
\* ranges and visible range rows, tab_scroll against the active tab's lines
\* and visible tab rows.
C8_ScrollWithinLenMinusVisible ==
    (screen = "feature" /\ loop = "running")
    => LET frame == _build_layout(feature, state, width, height).frame
           range_count == IF feature.browser_blocks = <<>> THEN 0
                          ELSE PyIndex(feature.browser_blocks, state.selected_browser)
           tab_lines == PyIndex(_tab_sections(feature), state.tab_index)
       IN /\ 0 <= state.range_scroll
          /\ frame.browser.kind = "rows"
                => state.range_scroll <= Max(range_count - frame.browser.visible_count, 0)
          /\ 0 <= state.tab_scroll
          /\ state.tab_scroll <= Max(tab_lines - frame.tabs.visible_count, 0)

\* C8, amended: in every state of the feature screen every scroll offset is
\* within [0, max(len - 1, 0)]: range_scroll against the focused browser's
\* range count, tab_scroll against the active tab's line count.
C8_ScrollWithinLenMinusOne ==
    screen = "feature"
    => LET range_count == IF feature.browser_blocks = <<>> THEN 0
                          ELSE PyIndex(feature.browser_blocks, state.selected_browser)
           tab_lines == PyIndex(_tab_sections(feature), state.tab_index)
       IN /\ 0 <= state.range_scroll
          /\ state.range_scroll <= Max(range_count - 1, 0)
          /\ 0 <= state.tab_scroll
          /\ state.tab_scroll <= Max(tab_lines - 1, 0)

\* Both offsets sit on the last item, past len - visible, in a drawn frame.
C8_Witness ==
    /\ screen = "feature" /\ pc = "read" /\ feature.browser_blocks # <<>>
    /\ state.range_scroll = MaxRanges - 1
    /\ PyIndex(feature.browser_blocks, state.selected_browser) = MaxRanges
    /\ state.tab_scroll = LongTab - 1

\* C9: for a feature with no browser blocks and no tabs no key raises in any
\* reachable state (no ZeroDivisionError, no IndexError), and the indices of
\* the empty browser dimension stay at 0; tab_index stays a valid index of
\* the section list.
C9_ZeroLengthSafety ==
    (screen = "feature" /\ feature.browser_blocks = <<>> /\ feature.tabs = <<>>)
    => /\ exc \notin {"IndexError", "ZeroDivisionError"}
       /\ \A k \in _KEY : _apply_key(k, state, feature).error = "none"
       /\ _build_layout(feature, state, width, height).ok
       /\ state.selected_browser = 0 /\ state.browser_offset = 0
       /\ state.range_scroll = 0
       /\ PyIndexOK(state.tab_index, Len(_tab_sections(feature)))

\* Keys were applied to the empty feature: the tab moved, the loop runs on.
C9_Witness ==
    /\ screen = "feature" /\ feature.browser_blocks = <<>> /\ feature.tabs = <<>>
    /\ loop = "running" /\ pc = "draw" /\ state.tab_index = 1

\* C10: in both POSIX decoders (read through an entered guard) input that
\* starts ESC [ A gives `up` as its first key, and an ESC followed by no byte
\* within the poll timeout (the input idles, or the next byte comes after a
\* gap) gives `quit`.
C10_ArrowUpAndLoneEscape ==
    (dec.keys # <<>> /\ dec.fd # "None")
    => /\ (Len(dec.input) >= 3 /\ SubSeq(dec.input, 1, 3) = <<ESC, "[", "A">>)
            => dec.keys[1] = "up"
       /\ (dec.input = <<ESC>> /\ dec.tail = "idle") => dec.keys[1] = "quit"
       /\ (Len(dec.input) >= 2 /\ dec.input[1] = ESC /\ dec.input[2] = GAP)
            => dec.keys[1] = "quit"

\* The selection decoder has decoded ESC [ A.
C10_Witness ==
    /\ dec.which = "select"
    /\ dec.input = <<ESC, "[", "A">> /\ dec.keys = <<"up">>

\* C11: in the feature-screen decoder every escape sequence that is
\* unterminated or not in the table decodes to `noop`, never to `quit` or a
\* movement key; only an ESC with nothing after it decodes to `quit`.
C11_UnknownEscapeIsNoop ==
    (/\ dec.which = "fullscreen" /\ dec.fd # "None" /\ dec.keys # <<>>
     /\ dec.input # <<>> /\ dec.input[1] = ESC /\ dec.keys[1] # "HANG")
    => LET sequence == EscapeLoop(<<>>, Tail(dec.input), dec.tail,
                                  FullscreenTerminators).sequence
           table == {<<"[", "A">>, <<"[", "B">>, <<"[", "C">>, <<"[", "D">>,
                     <<"[", "5", "~">>, <<"[", "6", "~">>, <<"[", "H">>,
                     <<"[", "F">>, <<"[", "Z">>}
       IN /\ (sequence # <<>> /\ sequence \notin table) => dec.keys[1] = "noop"
          /\ dec.keys[1] = "quit" => sequence = <<>>

\* C12: for a single non-escape byte the feature-screen POSIX decoder returns
\* one key and consumes that one byte: quit for q/Q, tab for TAB, prev_tab
\* for [, next_tab for ], left/down/up/right for h/j/k/l in either case, noop
\* for every other byte, CR and LF included.
C12_SingleByteKeys ==
    (/\ dec.which = "fullscreen" /\ dec.fd # "None" /\ dec.keys # <<>>
     /\ dec.input # <<>> /\ dec.input[1] # ESC)
    => LET b == dec.input[1]
           expected == CASE b \in {"q", "Q"} -> "quit"
                         [] b = "\t" -> "tab"
                         [] b = "[" -> "prev_tab"
                         [] b = "]" -> "next_tab"
                         [] b \in {"h", "H"} -> "left"
                         [] b \in {"j", "J"} -> "down"
                         [] b \in {"k", "K"} -> "up"
                         [] b \in {"l", "L"} -> "right"
                         [] OTHER -> "noop"
       IN /\ dec.keys[1] = expected
          /\ Len(dec.keys) = 1 => dec.bytes = Tail(dec.input)

\* An upper-case movement byte was decoded, the rest of the input is unread.
C12_Witness ==
    /\ dec.which = "fullscreen" /\ dec.fd = "stdin"
    /\ dec.input = <<"K", "q", "A">> /\ dec.keys = <<"up">>
    /\ dec.bytes = <<"q", "A">>

\* C13: a read that returns no bytes (end of file) makes the decoder return
\* `noop`, and read_key on a guard that was never entered returns `noop`
\* whatever the input holds; neither raises.
C13_ExhaustedInputIsNoop ==
    /\ (dec.which = "fullscreen" /\ dec.fd = "None" /\ dec.keys # <<>>)
          => dec.keys = <<"noop">>
    /\ (/\ dec.which = "fullscreen" /\ dec.fd # "None" /\ dec.keys # <<>>
        /\ dec.input = <<>> /\ dec.tail = "eof")
          => dec.keys = <<"noop">>

\* The decoder was called at end of file and returned noop.
C13_Witness ==
    /\ dec.which = "fullscreen" /\ dec.fd = "stdin"
    /\ dec.input = <<>> /\ dec.tail = "eof" /\ dec.keys = <<"noop">>
\* C14: in the selection key loop the cursor starts at 0; up and down move
\* it by one, clamped to [0, len-1] without wrapping; any other key leaves it
\* unchanged; Enter returns the slug under the cursor and quit returns None.
C14_SelectionLoop ==
    /\ [](screen = "select" /\ pc \in {"start", "raw_enter", "screen_enter", "live_enter"}
             => selected_idx = 0)
    /\ [](screen = "select"
             => (0 <= selected_idx /\ selected_idx <= Max(Len(options) - 1, 0)))
    /\ [][(screen = "select" /\ pc = "apply" /\ pc' # pc /\ exc' = exc)
            => CASE key = "up" ->
                      /\ selected_idx' = (IF selected_idx = 0 THEN 0 ELSE selected_idx - 1)
                      /\ pc' = "draw" /\ loop' = "running" /\ result' = result
                 [] key = "down" ->
                      /\ selected_idx' = (IF selected_idx = Len(options) - 1
                                           THEN selected_idx ELSE selected_idx + 1)
                      /\ pc' = "draw" /\ loop' = "running" /\ result' = result
                 [] key = "enter" ->
                      /\ result' = options[selected_idx + 1]
                      /\ loop' = "left_by_return" /\ pc' = "unwind"
                 [] key = "quit" ->
                      /\ result' = "None"
                      /\ loop' = "left_by_quit" /\ pc' = "unwind"
                 [] OTHER ->
                      /\ selected_idx' = selected_idx
                      /\ pc' = "draw" /\ loop' = "running" /\ result' = result]_vars
    /\ [][(screen = "select" /\ pc # "apply") => selected_idx' = selected_idx]_vars
    /\ [](screen = "select" /\ pc = "returned" /\ loop = "left_by_return"
             => result = options[selected_idx + 1])
    /\ [](screen = "select" /\ pc = "returned" /\ loop = "left_by_quit"
             => result = "None")

\* Enter was pressed with the cursor on the last of the most matches, whose
\* slug differs from the first match's.
C14_Witness ==
    /\ screen = "select" /\ pc = "returned" /\ loop = "left_by_return"
    /\ Len(options) = MaxOptions /\ selected_idx = MaxOptions - 1
    /\ options[1] # options[MaxOptions] /\ result = options[MaxOptions]

\* C15: with an empty match list, a single match, or stdin and stdout not
\* both terminals, select_match returns at once (None, that match's slug, the
\* first match's slug) without entering the loop, without printing and
\* without touching the terminal mode.
C15_EarlyReturns ==
    (screen = "select"
     /\ (Len(options) <= 1 \/ ~stdin_isatty \/ ~stdout_isatty))
    => /\ pc \in {"start", "returned"}
       /\ loop = "idle" /\ ctx = <<>> /\ exc = "none" /\ ~printed
       /\ fd = "None" /\ old_settings = "None" /\ term_attrs = "cooked"
       /\ setcbreak_calls = 0 /\ tcsetattr_calls = 0
       /\ pc = "returned"
            => result = (IF options = <<>> THEN "None" ELSE options[1])

\* Several matches, stdout not a terminal: the first slug was returned.
C15_Witness ==
    /\ screen = "select" /\ pc = "returned" /\ Len(options) = MaxOptions
    /\ stdin_isatty /\ ~stdout_isatty /\ key_loop_ok
    /\ result = options[1] /\ setcbreak_calls = 0 /\ loop = "idle"
\* C16: while the terminal is below the minimum size (one column by one row
\* is below any minimum) only quit is accepted: every other key leaves the
\* navigation state unchanged, and the frame built leaves it unchanged too.
C16_TooSmallAcceptsOnlyQuit ==
    [][(/\ screen = "feature" /\ loop = "running" /\ width = 1 /\ height = 1
        /\ exc' = exc /\ pc' # pc)
        => state' = state]_vars
\* C17: in every state reached by key presses the frame builds without an
\* exception; with no browser blocks the overview and the detail panel are
\* the "no blocks" and "no browser" placeholders, a focused browser with no
\* ranges gives the "no ranges" placeholder, and with no tabs the tab panel
\* still shows at least one line (the fallback line of Info when the feature
\* has no metadata).
C17_DegenerateDataRenders ==
    screen = "feature"
    => LET layout == _build_layout(feature, state, width, height)
           N == Len(feature.browser_blocks)
       IN /\ layout.ok
          /\ exc \notin {"IndexError", "ZeroDivisionError"}
          /\ N = 0 => /\ layout.frame.support.kind = "no_blocks"
                      /\ layout.frame.browser.kind = "no_browser"
          /\ N > 0 => /\ layout.frame.support.kind = "cards"
                      /\ layout.frame.browser.kind =
                            (IF feature.browser_blocks[layout.state.selected_browser + 1] = 0
                             THEN "no_ranges" ELSE "rows")
                      /\ layout.frame.browser.kind = "rows"
                            => layout.frame.browser.rows >= 1
          /\ feature.tabs = <<>>
               => /\ layout.frame.tabs.kind = "lines"
                  /\ layout.frame.tabs.rows >= 1
                  /\ ~feature.description_text => _tab_sections(feature)[1] = 1

\* A frame was drawn with the cursor moved onto a browser with no ranges, for
\* a feature with no tabs.
C17_Witness ==
    /\ screen = "feature" /\ pc = "read" /\ feature.tabs = <<>>
    /\ state.selected_browser > 0
    /\ feature.browser_blocks[state.selected_browser + 1] = 0
    /\ state.tab_index = 1
\* C18: left and right change selected_browser by -1 and +1, stopping at 0
\* and at N-1 without wrapping, reset range_scroll to 0 and leave tab_index
\* and tab_scroll (and the loop) as they are.
C18_LeftRight ==
    [][(/\ screen = "feature" /\ pc = "apply" /\ key \in {"left", "right"}
        /\ feature.browser_blocks # <<>> /\ exc' = exc /\ pc' # pc)
        => LET N == Len(feature.browser_blocks)
               C == state.selected_browser
           IN /\ key = "left" => state'.selected_browser = (IF C = 0 THEN 0 ELSE C - 1)
              /\ key = "right"
                   => state'.selected_browser = (IF C = N - 1 THEN N - 1 ELSE C + 1)
              /\ state'.range_scroll = 0
              /\ state'.tab_index = state.tab_index
              /\ state'.tab_scroll = state.tab_scroll
              /\ pc' = "draw" /\ loop' = "running"]_vars

\* `left` brought the cursor back from the last browser with the range list
\* scrolled and a tab scrolled: the scroll of the ranges is reset.
C18_Witness ==
    /\ screen = "feature" /\ pc = "draw" /\ Len(feature.browser_blocks) = 2
    /\ state.selected_browser = 0 /\ state.browser_offset = 1
    /\ state.range_scroll = 0 /\ state.tab_index = 1 /\ state.tab_scroll = PageStep

\* C19: up and down change range_scroll by -1 and +1 clamped to
\* [0, len(ranges) - 1] of the focused browser (0 when it has no ranges) and
\* change no other field.
C19_UpDown ==
    [][(/\ screen = "feature" /\ pc = "apply" /\ key \in {"up", "down"}
        /\ feature.browser_blocks # <<>> /\ exc' = exc /\ pc' # pc)
        => LET ranges == feature.browser_blocks[state.selected_browser + 1]
               R == state.range_scroll
           IN /\ key = "up" => state'.range_scroll = (IF R = 0 THEN 0 ELSE R - 1)
              /\ key = "down"
                   => state'.range_scroll =
                         (IF ranges = 0 THEN 0
                          ELSE IF R >= ranges - 1 THEN ranges - 1 ELSE R + 1)
              /\ state' = [state EXCEPT !.range_scroll = state'.range_scroll]
              /\ pc' = "draw" /\ loop' = "running"]_vars

\* `down` reached the last range of a browser that is not the first.
C19_Witness ==
    /\ screen = "feature" /\ pc = "draw" /\ feature.browser_blocks # <<>>
    /\ state.selected_browser > 0
    /\ feature.browser_blocks[state.selected_browser + 1] = MaxRanges
    /\ state.range_scroll = MaxRanges - 1 /\ state.tab_index = 0

\* C20: pageup and pagedown move selected_browser back and forward by one
\* visible-window page, clamped to [0, N-1], and move tab_scroll by -5 and +5
\* lines, clamped to the active tab's lines.
C20_PageKeys ==
    [][(/\ screen = "feature" /\ pc = "apply" /\ key \in {"pageup", "pagedown"}
        /\ feature.browser_blocks # <<>> /\ exc' = exc /\ pc' # pc)
        => LET N == Len(feature.browser_blocks)
               V == _build_layout(feature, state, width, height)
                       .frame.support.visible_count
               tab_lines == _tab_sections(feature)[state.tab_index + 1]
           IN /\ key = "pageup"
                   => /\ state'.selected_browser = Max(0, state.selected_browser - V)
                      /\ state'.tab_scroll = Max(state.tab_scroll - PageStep, 0)
              /\ key = "pagedown"
                   => /\ state'.selected_browser = Min(N - 1, state.selected_browser + V)
                      /\ state'.tab_scroll = Min(state.tab_scroll + PageStep,
                                                 Max(tab_lines - 1, 0))]_vars

\* C21: tab/next_tab advance and shift_tab/prev_tab retreat tab_index by one
\* modulo the section count, wrapping at both ends, and reset tab_scroll to
\* 0; from any state an advance followed by a retreat restores tab_index, and
\* as many advances as there are sections return to the starting tab.
C21_TabCycle ==
    /\ [][(/\ screen = "feature" /\ pc = "apply" /\ exc' = exc /\ pc' # pc
           /\ key \in {"tab", "next_tab", "shift_tab", "prev_tab"})
           => LET S == Len(_tab_sections(feature))
                  T == state.tab_index
              IN /\ key \in {"tab", "next_tab"}
                      => state'.tab_index = (IF T = S - 1 THEN 0 ELSE T + 1)
                 /\ key \in {"shift_tab", "prev_tab"}
                      => state'.tab_index = (IF T = 0 THEN S - 1 ELSE T - 1)
                 /\ state'.tab_scroll = 0
                 /\ state'.selected_browser = state.selected_browser
                 /\ state'.range_scroll = state.range_scroll
                 /\ pc' = "draw" /\ loop' = "running"]_vars
    /\ [](screen = "feature"
            => \A fwd \in {"tab", "next_tab"}, back \in {"shift_tab", "prev_tab"} :
                 LET S == Len(_tab_sections(feature))
                     advanced[n \in 0..S] ==
                         IF n = 0 THEN state
                         ELSE _apply_key(fwd, advanced[n - 1], feature).state
                 IN /\ _apply_key(back, advanced[1], feature).state.tab_index
                         = state.tab_index
                    /\ _apply_key(fwd, _apply_key(back, state, feature).state,
                                  feature).state.tab_index = state.tab_index
                    /\ advanced[S].tab_index = state.tab_index
                    /\ \A n \in 1..(S - 1) : advanced[n].tab_index # state.tab_index)

\* The last of three sections is shown from its top while the range list of
\* the focused browser is scrolled.
C21_Witness ==
    /\ screen = "feature" /\ pc = "draw" /\ Len(_tab_sections(feature)) = 3
    /\ state.tab_index = 2 /\ state.tab_scroll = 0
    /\ state.range_scroll = 1

\* C22: home sets range_scroll and tab_scroll to 0; end sets range_scroll to
\* the last range index of the focused browser and tab_scroll to the last
\* line index of the active tab (0 where there is none); neither changes
\* selected_browser, browser_offset or tab_index.
C22_HomeEnd ==
    [][(/\ screen = "feature" /\ pc = "apply" /\ exc' = exc /\ pc' # pc
        /\ key \in {"home", "end"})
        => LET N == Len(feature.browser_blocks)
               ranges == IF N = 0 THEN 0 ELSE feature.browser_blocks[state.selected_browser + 1]
               tab_lines == _tab_sections(feature)[state.tab_index + 1]
           IN /\ key = "home" => state'.range_scroll = 0 /\ state'.tab_scroll = 0
              /\ key = "end"
                   => /\ state'.range_scroll = (IF ranges = 0 THEN 0 ELSE ranges - 1)
                      /\ state'.tab_scroll = tab_lines - 1
              /\ state'.selected_browser = state.selected_browser
              /\ state'.browser_offset = state.browser_offset
              /\ state'.tab_index = state.tab_index
              /\ pc' = "draw" /\ loop' = "running"]_vars

\* `end` reached the last range of the focused browser and the last line of a
\* long tab.
C22_Witness ==
    /\ screen = "feature" /\ pc = "draw" /\ feature.browser_blocks # <<>>
    /\ feature.browser_blocks[state.selected_browser + 1] = MaxRanges
    /\ state.range_scroll = MaxRanges - 1
    /\ state.tab_index = 1 /\ feature.tabs = <<LongTab>>
    /\ state.tab_scroll = LongTab - 1

\* C23: noop changes no field of the state and does not end the loop:
\* _apply_key returns True with the state as it was.
C23_NoopChangesNothing ==
    /\ [](screen = "feature"
            => _apply_key("noop", state, feature)
                 = [continue |-> TRUE, state |-> state, error |-> "none"])
    /\ [][(screen = "feature" /\ pc = "apply" /\ key = "noop" /\ exc' = exc /\ pc' # pc)
            => state' = state /\ pc' = "draw" /\ loop' = "running"]_vars

\* At end of input every read gives noop: one was applied to a state with
\* every field off its initial value.
C23_Witness ==
    /\ screen = "feature" /\ pc = "draw" /\ stdin_eof /\ loop = "running"
    /\ state.selected_browser > 0 /\ state.range_scroll > 0
    /\ state.tab_index > 0 /\ state.tab_scroll > 0

C25_RestoreAttemptedOnce ==
    /\ [](/\ setcbreak_calls <= 1
          /\ tcsetattr_calls <= setcbreak_calls
          /\ (pc \in {"returned", "raised"} /\ exc # "termios.error"
                => tcsetattr_calls = setcbreak_calls)
          /\ (pc \in {"returned", "raised"} /\ exc = "tcsetattr_error"
                => tcsetattr_calls = 1 /\ setcbreak_calls = 1)
          /\ (os_name = "nt" \/ pc \in {"start", "static", "prompt", "raw_enter"}
              \/ exc = "termios.error"
                => tcsetattr_calls = 0)
          /\ (ctx # <<>> /\ os_name = "posix"
                => setcbreak_calls = 1 /\ tcsetattr_calls = 0))
    /\ [][tcsetattr_calls' # tcsetattr_calls
            => /\ pc = "unwind" /\ ctx = <<"raw">> /\ ctx' = <<>>
               /\ tcsetattr_calls = 0 /\ tcsetattr_calls' = 1]_vars

\* The loop was left by quit and the one restoring call failed.
C25_Witness ==
    /\ pc = "raised" /\ exc = "tcsetattr_error" /\ loop = "left_by_quit"
    /\ setcbreak_calls = 1 /\ tcsetattr_calls = 1 /\ term_attrs = "cbreak"

\* C26: a failure of the restoring tcsetattr call is not propagated:
\* run_fullscreen does not end by raising it.
C26_RestoreFailureNotPropagated ==
    screen = "feature" => ~(pc = "raised" /\ exc = "tcsetattr_error")

\* C27: when stdin or stdout is not a terminal the guard is never entered:
\* __enter__ is not reached, no context is entered, no key loop runs and the
\* terminal mode is never touched; run_fullscreen prints the static
\* rendering and select_match returns without a prompt or a key loop.
C27_NoGuardWithoutTerminals ==
    (~stdin_isatty \/ ~stdout_isatty)
    => /\ pc \in {"start", "static", "returned"}
       /\ ctx = <<>> /\ loop = "idle" /\ exc = "none"
       /\ fd = "None" /\ old_settings = "None" /\ term_attrs = "cooked"
       /\ setcbreak_calls = 0 /\ tcsetattr_calls = 0
       /\ (pc = "returned" /\ screen = "feature") => printed /\ result = "None"
       /\ (pc = "returned" /\ screen = "select")
            => /\ ~printed
               /\ result = (IF options = <<>> THEN "None" ELSE options[1])
       /\ pc = "static" => screen = "feature"

\* Only stdout is not a terminal, every other check of _supports_tui passes,
\* and the static rendering was printed.
C27_Witness ==
    /\ screen = "feature" /\ stdin_isatty /\ ~stdout_isatty /\ key_loop_ok
    /\ pc = "returned" /\ printed /\ setcbreak_calls = 0

\* C28: fetch_html retries a connection error at most once per _request: a
\* ConnectError followed by a 200 response returns the body after exactly two
\* attempts, two ConnectErrors in a row raise NetworkError with no third
\* attempt, and a timeout (RequestTimeoutError) or another request error
\* (NetworkError) is raised at once, with no attempt after it.
C28_ConnectRetryOnce ==
    /\ \A c \in {1, 2} :
         LET tries == SelectSeq(http.log, LAMBDA a : a.call = c)
             over == http.pc \in {"returned", "raised"} \/ http.call > c
         IN /\ Len(tries) <= 2
            /\ Len(tries) = 2
                 => tries[1].outcome = "ConnectError" /\ tries[2].params = tries[1].params
            /\ (Len(tries) = 1 /\ tries[1].outcome = "ConnectError")
                 => ~over /\ http.pc = "request" /\ ~http.retry_once
            /\ (over /\ http.call = c /\ Len(tries) = 2 /\ tries[2].outcome = "200")
                 => http.pc = "returned" /\ http.result = "body"
            /\ (Len(tries) = 2 /\ tries[2].outcome = "ConnectError")
                 => /\ http.pc = "raised" /\ http.result = "NetworkError"
                    /\ http.call = c
    /\ \A k \in 1..Len(http.log) :
         /\ http.log[k].outcome = "TimeoutException"
              => /\ k = Len(http.log) /\ http.pc = "raised"
                 /\ http.result = "RequestTimeoutError"
         /\ http.log[k].outcome = "RequestError"
              => /\ k = Len(http.log) /\ http.pc = "raised"
                 /\ http.result = "NetworkError"
    /\ (http.log # <<>> /\ http.log[1].outcome \in {"TimeoutException", "RequestError"})
         => Len(http.log) = 1
    /\ http.pc = "returned" => http.log[Len(http.log)].outcome = "200"

\* A ConnectError, then a 200 response: the body after two attempts.
C28_Witness ==
    /\ http.caller = "test" /\ http.pc = "returned" /\ http.result = "body"
    /\ Len(http.log) = 2
    /\ http.log[1].outcome = "ConnectError" /\ http.log[2].outcome = "200"

\* C29: with allow_static_fallback and static=1 in the params, a non-200
\* status of the first _request is followed by exactly one further _request
\* with the same params minus `static`, whose body is returned or whose error
\* (a second HttpStatusError included) leaves fetch_html; without the flag
\* or without static=1 the HttpStatusError leaves fetch_html after the first
\* response.
C29_StaticFallbackOnce ==
    LET fallback == http.allow_static_fallback /\ http.request_params.static = "1"
        first == SelectSeq(http.log, LAMBDA a : a.call = 1)
        second == SelectSeq(http.log, LAMBDA a : a.call = 2)
        status1 == first # <<>> /\ first[Len(first)].outcome = "non200"
        last == http.log[Len(http.log)]
    IN /\ http.call \in 0..2
       /\ \A k \in 1..Len(http.log) : http.log[k].call \in {1, 2}
       /\ \A k \in 1..Len(first) : first[k].params = http.request_params
       /\ \A k \in 1..Len(second) :
            /\ second[k].params.static = "absent"
            /\ second[k].params.search = http.request_params.search
       /\ http.call = 2 <=> (fallback /\ status1)
       /\ (http.call = 2 /\ http.pc \in {"returned", "raised"})
            => /\ second # <<>>
               /\ last.outcome = "200" => http.pc = "returned" /\ http.result = "body"
               /\ last.outcome = "non200"
                    => http.pc = "raised" /\ http.result = "HttpStatusError"
               /\ last.outcome = "blank200"
                    => http.pc = "raised" /\ http.result = "ContentError"
       /\ (status1 /\ ~fallback)
            => /\ http.pc = "raised" /\ http.result = "HttpStatusError"
               /\ last.call = 1 /\ last.outcome = "non200"
       /\ \A k \in 1..Len(http.log) :
            http.log[k].outcome = "non200"
               => k = Len(first) \/ k = Len(http.log)

\* The first response was not 200, the request without `static` (other
\* params kept) met a second non-200 status, and that error left fetch_html.
C29_Witness ==
    /\ http.caller = "test" /\ http.pc = "raised" /\ http.result = "HttpStatusError"
    /\ http.call = 2 /\ http.request_params = [static |-> "1", search |-> TRUE]
    /\ Len(http.log) = 2
    /\ http.log[2].params = [static |-> "absent", search |-> TRUE]

\* C30: one CLI run opens the shared HTTP client context exactly once and
\* closes it exactly once, also when a fetch raises a CaniuseError, and the
\* search-page fetch and the feature-page fetch both happen while it is open.
C30_SharedClientOnce ==
    cli.pc = "done"
    => /\ cli.entered = 1 /\ cli.exited = 1 /\ ~cli.active
       /\ \A k \in 1..Len(cli.fetches) : cli.fetches[k].in_context

C32_EscapeAlwaysReturns ==
    \A i \in 1..Len(dec.keys) :
       /\ dec.keys[i] # "HANG"
       /\ dec.which = "fullscreen" => dec.keys[i] \in _KEY \cup {"BLOCKED"}
       /\ dec.which = "select" => dec.keys[i] \in SelectKEY \cup {"BLOCKED"}

\* C37: the feature-screen decoder accepts variant encodings of a key: the
\* SS3 form ESC O <letter> decodes like the CSI form ESC [ <letter>, and a
\* page code with a modifier parameter decodes to the unmodified key.
C37_VariantEncodings ==
    (/\ dec.which = "fullscreen" /\ dec.fd # "None" /\ dec.keys # <<>>
     /\ Len(dec.input) = 3 /\ dec.input[1] = ESC /\ dec.input[2] = "O"
     /\ dec.input[3] \in {"A", "B", "C"})
    => /\ dec.keys[1] = _decode_escape_sequence(<<"[", dec.input[3]>>)
       /\ dec.input[3] = "C" => dec.keys[1] = "right"
       /\ _decode_escape_sequence(<<"[", "5", ";", "5", "~">>) = "pageup"
       /\ _decode_escape_sequence(<<"[", "6", ";", "2", "~">>) = "pagedown"

\* C33: for every N, V >= 1, cursor C and window start S, _fit_browser_window
\* gives the result of the windowing rule: C clamped to [0, N-1], S clamped
\* to [0, max(N-V, 0)], then S = C if C < S, S = C - V + 1 if C >= S + V, and
\* S as clamped when the clamped cursor lies in [S, S+V).
C33_WindowingRule ==
    fit.calls >= 1
    => LET N == fit.browser_count
           V == fit.visible_count
           C == Clamp(fit.pre.selected_browser, 0, N - 1)
           S == Clamp(fit.pre.browser_offset, 0, Max(N - V, 0))
           rule == CASE C < S -> C
                     [] C >= S + V -> C - V + 1
                     [] OTHER -> S
       IN /\ fit.state.selected_browser = C
          /\ fit.state.browser_offset = rule
          /\ (S <= C /\ C < S + V) => fit.state.browser_offset = S
          /\ (S <= fit.pre.selected_browser /\ fit.pre.selected_browser < S + V
              /\ fit.pre.browser_offset = S /\ N > 0 /\ fit.pre.selected_browser < N)
               => fit.state = fit.pre

\* A cursor inside a window that does not start at 0 and does not end at the
\* cursor: nothing moves.
C33_Witness ==
    /\ fit.calls = 1 /\ fit.browser_count = MaxFitCount /\ fit.visible_count = 3
    /\ fit.pre.selected_browser = 2 /\ fit.pre.browser_offset = 1
    /\ fit.state.selected_browser = 2 /\ fit.state.browser_offset = 1

\* C35: _fit_browser_window is idempotent: applied to its own output with
\* the same N and V it changes nothing; and its result depends on no field
\* of the state but selected_browser and browser_offset, and touches none.
C35_FitIdempotent ==
    /\ fit.calls = 2 => fit.state = fit.pre
    /\ fit.calls >= 1
         => /\ _fit_browser_window(fit.state, fit.browser_count, fit.visible_count)
                 = fit.state
            /\ \A rs \in 0..MaxRanges, ti \in 0..(MaxTabs + 1), ts \in {0, PageStep} :
                 LET other == [fit.pre EXCEPT !.range_scroll = rs, !.tab_index = ti,
                                              !.tab_scroll = ts]
                     r == _fit_browser_window(other, fit.browser_count,
                                              fit.visible_count)
                 IN /\ r.selected_browser = fit.state.selected_browser
                    /\ r.browser_offset = fit.state.browser_offset
                    /\ r.range_scroll = rs /\ r.tab_index = ti /\ r.tab_scroll = ts

\* The second call came after a first one that had to clamp the cursor and
\* move the window right by more than one card.
C35_Witness ==
    /\ fit.calls = 2 /\ fit.browser_count = MaxFitCount /\ fit.visible_count = 2
    /\ fit.state.selected_browser = MaxFitCount - 1
    /\ fit.state.browser_offset = MaxFitCount - 2
    /\ fit.pre = fit.state

\* C34: from cursor 0 and window start 0, after k presses of `right`, each
\* followed by a frame build, the cursor is on min(k, N-1) and the window
\* starts at max(cursor - V + 1, 0); at every frame on the way
\* 0 <= browser_offset <= max(N-V, 0) and the cursor is inside the window.
\* With 7 browsers and 3 visible cards six presses end on cursor 6 with the
\* window at 4, and the window start never exceeds 4.
C34_SixRights ==
    LET N == fit.browser_count
        V == fit.visible_count
        C == fit.state.selected_browser
        S == fit.state.browser_offset
    IN /\ C = Min(fit.calls, N - 1)
       /\ S = Max(C - V + 1, 0)
       /\ 0 <= S /\ S <= Max(N - V, 0)
       /\ S <= C /\ C < S + V
       /\ (N = 7 /\ V = 3) => (0 <= S /\ S <= 4 /\ C < S + 3)
       /\ (N = 7 /\ V = 3 /\ fit.calls = 6) => (C = 6 /\ S = 4)

\* The sixth press with 7 browsers and 3 visible cards.
C34_Witness ==
    /\ fit.browser_count = 7 /\ fit.visible_count = 3 /\ fit.calls = 6
    /\ fit.pre.selected_browser = 5 /\ fit.pre.browser_offset = 3
    /\ fit.state.selected_browser = 6 /\ fit.state.browser_offset = 4

\* C39: in every state of the feature screen range_scroll is at most
\* max(len(ranges) - 1, 0) for the ranges of the browser selected in that
\* state, and every step that changes selected_browser leaves range_scroll
\* at 0: an offset reached in a browser with many ranges is never carried
\* to a browser with fewer.
C39_RangeScrollFollowsBrowser ==
    /\ [](screen = "feature" /\ feature.browser_blocks # <<>>
            => /\ PyIndexOK(state.selected_browser, Len(feature.browser_blocks))
               /\ 0 <= state.range_scroll
               /\ state.range_scroll
                    <= Max(feature.browser_blocks[state.selected_browser + 1] - 1, 0))
    /\ [][(screen = "feature" /\ screen' = "feature"
           /\ state'.selected_browser # state.selected_browser)
           => state'.range_scroll = 0]_vars

\* A key has just been applied and the cursor is on a browser that has
\* fewer ranges than the last offset of its left neighbour, which has the
\* most ranges.
C39_Witness ==
    /\ screen = "feature" /\ pc = "draw"
    /\ Len(feature.browser_blocks) >= 2
    /\ state.selected_browser >= 1
    /\ feature.browser_blocks[state.selected_browser] = MaxRanges
    /\ feature.browser_blocks[state.selected_browser + 1] < MaxRanges - 1
    /\ state.range_scroll = 0

\* C40: the section list of every feature has at least two entries, the Info
\* section (never empty) first and the Legend section last, so no key raises
\* ZeroDivisionError; and in every reachable state tab_index is a valid
\* index of the section list, so neither _apply_key (pagedown, end) nor
\* _tab_panel raises IndexError on it.
C40_SectionsAndTabIndex ==
    screen = "feature"
    => LET sections == _tab_sections(feature)
       IN /\ Len(sections) >= 2
          /\ sections[1] >= 1
          /\ sections[Len(sections)] = LegendLines
          /\ PyIndexOK(state.tab_index, Len(sections))
          /\ \A k \in {"tab", "next_tab", "shift_tab", "prev_tab", "pagedown", "end"} :
                ApplyKeyError(k, state, feature) = "none"
          /\ \A rows \in {ShortHeight, TallHeight} :
                _tab_panel(feature, state, LayoutRows(rows).details_rows).ok
          /\ exc \notin {"ZeroDivisionError", "IndexError"}

\* A key has just been applied and left the last section (Legend) of the
\* longest section list active, scrolled to its last line.
C40_Witness ==
    /\ screen = "feature" /\ pc = "draw"
    /\ Len(_tab_sections(feature)) = MaxTabs + 2
    /\ state.tab_index = MaxTabs + 1
    /\ state.tab_scroll = LegendLines - 1

\* C36: the selection list's window start after every up/down key equals the
\* start the carousel rule (_fit_browser_window) gives from the previous
\* start, so the window moves only when the cursor would otherwise leave it.
C36_SameAsCarousel ==
    [][(win'.last \in {"up", "down"} /\ win'.height = win.height)
        => LET visible == Max(win.height - 6, 1)
               fitted == _fit_browser_window(
                             [_TuiState EXCEPT !.selected_browser = win'.selected_idx,
                                               !.browser_offset = win.start],
                             win.total, visible)
           IN /\ win'.start = fitted.browser_offset
              /\ win'.start # win.start
                   => ~(win.start <= win'.selected_idx
                        /\ win'.selected_idx < win.start + visible)]_vars

\* C36 (amended): the selection list has its own windowing function: with
\* visible = max(height - 6, 1), the window is the whole list when
\* total <= visible, and otherwise starts at selected - visible // 2 clamped
\* to [0, total - visible], whatever the previous start was; so between the
\* two ends of the list the window start moves by one with every up/down
\* key, also when the cursor would have stayed inside the previous window.
C36_CentredOnCursor ==
    /\ [](win.last # "none"
            => LET visible == Max(win.height - 6, 1)
                   half == FloorDiv(visible, 2)
                   centred == win.selected_idx - half
               IN win.start = (IF win.total <= visible \/ centred < 0 THEN 0
                               ELSE IF centred > win.total - visible
                               THEN win.total - visible
                               ELSE centred))
    /\ [][(/\ win'.last \in {"up", "down"} /\ win'.height = win.height
           /\ LET visible == Max(win.height - 6, 1)
                  half == FloorDiv(visible, 2)
              IN /\ win.total > visible
                 /\ \A idx \in {win.selected_idx, win'.selected_idx} :
                       0 <= idx - half /\ idx - half <= win.total - visible)
           => win'.start - win.start = win'.selected_idx - win.selected_idx]_vars

\* `up` from the last row of a list longer than the window: the cursor would
\* have stayed inside the previous window, and the window moved with it.
C36_Witness ==
    /\ win.last = "up" /\ win.total = 4 /\ Max(win.height - 6, 1) = 2
    /\ win.selected_idx = 2 /\ win.start = 1 /\ win.stop = 3

\* C38: for every total >= 1, every selected index in [0, total - 1] and
\* every terminal height, the window (start, stop) of the selection list has
\* 0 <= start <= selected < stop <= total and
\* stop - start = min(max(height - 6, 1), total), at the first frame and
\* after every move and every resize.
C38_HighlightedRowIsDrawn ==
    win.last # "none"
    => /\ win.total >= 1
       /\ 0 <= win.selected_idx /\ win.selected_idx < win.total
       /\ 0 <= win.start /\ win.start <= win.selected_idx
       /\ win.selected_idx < win.stop /\ win.stop <= win.total
       /\ win.stop - win.start = Min(Max(win.height - 6, 1), win.total)

\* `down` reached the last match of a list longer than a window of at least
\* two rows: the window is the last rows of the list.
C38_Witness ==
    /\ win.last = "down" /\ win.selected_idx = win.total - 1
    /\ Max(win.height - 6, 1) >= 2 /\ win.total > Max(win.height - 6, 1)
    /\ win.start = win.total - Max(win.height - 6, 1) /\ win.stop = win.total
====
